---- MODULE Spec2Model ----
(***************************************************************************)
(* Model of the query-and-aggregation engine of lymph-interface            *)
(* (src/dashboard/query.py) over the patient store of                      *)
(* src/patients/models.py.                                                 *)
(*                                                                         *)
(* Python's None / True / False are the strings "None" / "True" / "False"; *)
(* a QuerySet of patients is the number of result rows per patient id      *)
(* (joins on a multi-valued relation repeat a patient; distinct() and a    *)
(* fresh Patient.objects.all() give one row per patient).                  *)
(***************************************************************************)
EXTENDS Integers, Sequences, FiniteSets, TLC

VARIABLES
    patients,              \* Patient table: id -> fields
    tumors,                \* Tumor table, in primary-key order
    diagnoses,             \* Diagnose table, in primary-key order
    kwargs,                \* the cleaned form data of the request
    n_status,              \* the n_status argument of n_zero_specific
    patient_queryset,      \* the cohort handed from stage to stage
    received,              \* the cohort the last executed stage was called with
    combined_involvement,  \* side -> patient id -> consensus per LNL
    counts,                \* the result of count_patients
    pc,                    \* the stage to run next, "done" or "failed"
    error,                 \* the exception that ended the request, or "none"
    datasets,              \* Dataset table: primary key -> fields
    instances,             \* the model instances in memory that are operated on
    storage,               \* the files in the media storage
    log,                   \* the warnings the loggers have emitted, in order
    call,                  \* the pending call of an encoder and its arguments
    result,                \* what the encoder returned, <<>> before it has
    steps,                 \* the number of model operations executed
    next_pk,               \* model -> the primary key of its next inserted row
    institutions           \* the primary keys of the stored institutions

vars == <<patients, tumors, diagnoses, kwargs, n_status, patient_queryset,
          received, combined_involvement, counts, pc, error,
          datasets, instances, storage, log, call, result, steps, next_pk,
          institutions>>

\* what a dashboard request reads and writes
queryVars == <<kwargs, n_status, patient_queryset, received, combined_involvement,
               counts>>

\* the datasets, the instances in memory, the media storage and the institutions
modelVars == <<datasets, instances, storage, steps, next_pk, institutions>>

\* the call of an encoder
encoderVars == <<call, result>>

-----------------------------------------------------------------------------
(* Bounds of the model *)

MaxPatients == 2        \* patients in the store
MaxDiagnoses == 2       \* diagnoses in a store of any shape
MaxObservations == 3    \* diagnoses of one patient and modality in a deep store
MaxTumors == 2          \* tumors in the store
MaxInstitutions == 2    \* institutions in the store, when it has any
MaxSteps == 2           \* operations on model instances in one run

-----------------------------------------------------------------------------
(* Three-valued values and Python's truth *)

None == "None"
True == "True"
False == "False"
Ternary == {None, True, False}

\* bool(v): None and False are falsy
Truthy(v) == v = True

\* a Python bool from a TLA+ one
PyBool(b) == IF b THEN True ELSE False

\* not(v), defined on True / False / None like Python's `not`
PyNot(v) == PyBool(~Truthy(v))

\* Python's builtin any() over a sequence
any(col) == \E r \in DOMAIN col : Truthy(col[r])

VecAdd(a, b) == [i \in DOMAIN a |-> a[i] + b[i]]

Zeros(n) == [i \in 1..n |-> 0]

-----------------------------------------------------------------------------
(* Configuration constants of patients/models.py *)

LNLs == <<"I", "Ia", "Ib", "II", "IIa", "IIb", "III", "IV", "V", "Va", "Vb", "VII">>

LNLNames == {LNLs[i] : i \in DOMAIN LNLs}

Sides == <<"ipsi", "contra">>

T_stages == <<1, 2, 3, 4>>

SUBSITE_DICT ==
    << [name |-> "base",        codes |-> {"C01", "C01.9"}],
       [name |-> "tonsil",      codes |-> {"C09.0", "C09.1", "C09.8", "C09.9"}],
       [name |-> "rest_oro",    codes |-> {"C10.0", "C10.1", "C10.2", "C10.3",
                                           "C10.4", "C10.8", "C10.9"}],
       [name |-> "rest_hypo",   codes |-> {"C12", "C12.9", "C13.0", "C13.1",
                                           "C13.2", "C13.8", "C13.9"}],
       [name |-> "glottis",     codes |-> {"C32.0"}],
       [name |-> "rest_larynx", codes |-> {"C32.1", "C32.2", "C32.3", "C32.8",
                                           "C32.9"}],
       [name |-> "tongue",      codes |-> {"C02.0", "C02.1", "C02.2", "C02.3",
                                           "C02.4", "C02.8", "C02.9"}],
       [name |-> "gum_cheek",   codes |-> {"C03.0", "C03.1", "C03.9", "C06.0",
                                           "C06.1", "C06.2", "C06.8", "C06.9"}],
       [name |-> "mouth_floor", codes |-> {"C04.0", "C04.1", "C04.8", "C04.9"}],
       [name |-> "palate",      codes |-> {"C05.0", "C05.1", "C05.2", "C05.8",
                                           "C05.9"}],
       [name |-> "glands",      codes |-> {"C08.0", "C08.1", "C08.9"}] >>

SUBSITE_LIST == UNION {SUBSITE_DICT[i].codes : i \in DOMAIN SUBSITE_DICT}

-----------------------------------------------------------------------------
(* tf2arr and subsite2arr *)

\* faulty variant: the buckets of True and False exchanged
tf2arr_swapped(value) ==
    IF value = None THEN <<1, 0, 0>>
    ELSE IF Truthy(value) THEN <<0, 0, 1>>
    ELSE <<0, 1, 0>>

\* faulty variant: no bucket for the unknown value
tf2arr_unknown_dropped(value) ==
    IF value = None THEN <<0, 0, 0>>
    ELSE IF Truthy(value) THEN <<0, 1, 0>>
    ELSE <<0, 0, 1>>

tf2arr(value) ==
    IF value = None THEN <<1, 0, 0>>
    ELSE IF Truthy(value) THEN <<0, 1, 0>>
    ELSE <<0, 0, 1>>

\* faulty variant: the loop left at the first group that holds the subsite
subsite2arr_first_match(subsite) ==
    [i \in DOMAIN SUBSITE_DICT |->
        IF /\ subsite \cap SUBSITE_DICT[i].codes # {}
           /\ \A j \in 1..(i - 1) : subsite \cap SUBSITE_DICT[j].codes = {}
        THEN 1 ELSE 0]

\* subsite2arr: the groups of the class constant Tumor.SUBSITE_DICT in order,
\* 1 at every group whose list holds the subsite. `subsite in subsite_list`
\* asks == of every entry of the list, so the argument is given as the set of
\* strings it compares equal to: {s} for the str s, more than one string only
\* for an object whose __eq__ says so (all of them for unittest.mock.ANY)
subsite2arr(subsite) ==
    [i \in DOMAIN SUBSITE_DICT |->
        IF subsite \cap SUBSITE_DICT[i].codes # {} THEN 1 ELSE 0]

\* np.sum(res) > 1: the call logs a warning
RECURSIVE np_sum(_)
np_sum(res) == IF res = <<>> THEN 0 ELSE Head(res) + np_sum(Tail(res))

subsite2arr_warns(res) == np_sum(res) > 1

\* the encoders, each one call
Tf2arr ==
    /\ call.op = "tf2arr"
    /\ result = <<>>
    /\ result' = tf2arr(call.value)
    /\ UNCHANGED <<patients, tumors, diagnoses, queryVars, pc, error, modelVars,
                   log, call>>

Subsite2arr ==
    /\ call.op = "subsite2arr"
    /\ result = <<>>
    /\ LET res == subsite2arr(call.subsite)
       IN  /\ result' = res
           /\ log' = IF subsite2arr_warns(res)
                     THEN Append(log, "A tumor has been associated with more than one subsite.")
                     ELSE log
    /\ UNCHANGED <<patients, tumors, diagnoses, queryVars, pc, error, modelVars,
                   call>>

-----------------------------------------------------------------------------
(* QuerySets of patients *)

PatientIds == DOMAIN patients

\* the patients a QuerySet holds, and len(queryset)
Members(qs) == {p \in DOMAIN qs : qs[p] > 0}

RECURSIVE SumOver(_, _)
SumOver(f, S) ==
    IF S = {} THEN 0
    ELSE LET x == CHOOSE y \in S : TRUE IN f[x] + SumOver(f, S \ {x})

QLen(qs) == SumOver(qs, DOMAIN qs)

\* faulty variant: the filter sliced after its first row, [1:]
FilterPatients_drop_first(qs, S) ==
    LET kept == {p \in DOMAIN qs : p \in S /\ qs[p] > 0}
    IN  [p \in DOMAIN qs |->
            IF p \in kept /\ \E q \in kept : q < p THEN qs[p] ELSE 0]

\* queryset.filter(<field of Patient> ...) for the patients S the lookup matches:
\* keeps the rows of these patients
FilterPatients(qs, S) ==
    [p \in DOMAIN qs |-> IF p \in S THEN qs[p] ELSE 0]

\* queryset.filter(tumor__<field> ...) for the tumors T the lookup matches: an
\* inner join with the tumor table of its own, one result row per row of the
\* queryset and matching tumor of the patient
FilterTumors(qs, T) ==
    [p \in DOMAIN qs |-> qs[p] * Cardinality({i \in T : tumors[i].patient = p})]

-----------------------------------------------------------------------------
(* patient_specific and tumor_specific *)

\* An `__in` criterion is [specified |-> "None" | "Omitted" | "Given", values |-> set]:
\* passed as None, left out of the call (the default applies), or a list.
NoCriterion == [specified |-> "None", values |-> {}]
OmittedCriterion == [specified |-> "Omitted", values |-> {}]
Given(S) == [specified |-> "Given", values |-> S]

\* institution__in defaults to None
institution__in_arg(kw) ==
    IF kw.institution__in.specified = "Omitted" THEN NoCriterion ELSE kw.institution__in

\* patient_queryset.filter(institution__in=value): Patient declares no field
\* `institution`, the lookup cannot be resolved and filter() raises
institution_filter_error == "FieldError"

\* the QuerySet patient_specific returns, or the exception it raises
patient_specific(qs, kw) ==
    LET institution__in == institution__in_arg(kw)
        q1 == IF kw.nicotine_abuse # None
              THEN FilterPatients(qs, {x \in PatientIds : patients[x].nicotine_abuse = kw.nicotine_abuse})
              ELSE qs
        q2 == IF kw.hpv_status # None
              THEN FilterPatients(q1, {x \in PatientIds : patients[x].hpv_status = kw.hpv_status})
              ELSE q1
        q3 == IF kw.neck_dissection # None
              THEN FilterPatients(q2, {x \in PatientIds : patients[x].neck_dissection = kw.neck_dissection})
              ELSE q2
    IN  IF institution__in.specified # "None"
        THEN [error |-> institution_filter_error, queryset |-> <<>>]
        ELSE [error |-> "none", queryset |-> q3]

\* the defaults of tumor_specific's signature
default_subsite__in == Given(SUBSITE_LIST)
default_t_stage__in == Given({1, 2, 3, 4})

\* faulty variant: None replaced by the default, like a left-out argument
subsite__in_arg_none_as_default(kw) ==
    IF kw.subsite__in.specified \in {"Omitted", "None"}
    THEN default_subsite__in ELSE kw.subsite__in

subsite__in_arg(kw) ==
    IF kw.subsite__in.specified = "Omitted" THEN default_subsite__in ELSE kw.subsite__in

t_stage__in_arg(kw) ==
    IF kw.t_stage__in.specified = "Omitted" THEN default_t_stage__in ELSE kw.t_stage__in

tumor_specific(qs, kw) ==
    LET subsite__in == subsite__in_arg(kw)
        t_stage__in == t_stage__in_arg(kw)
        q1 == IF subsite__in.specified # "None"
              THEN FilterTumors(qs, {t \in DOMAIN tumors : tumors[t].subsite \in subsite__in.values})
              ELSE qs
        q2 == IF t_stage__in.specified # "None"
              THEN FilterTumors(q1, {t \in DOMAIN tumors : tumors[t].t_stage \in t_stage__in.values})
              ELSE q1
        q3 == IF kw.central # None
              THEN FilterTumors(q2, {t \in DOMAIN tumors : tumors[t].central = kw.central})
              ELSE q2
        q4 == IF kw.extension # None
              THEN FilterTumors(q3, {t \in DOMAIN tumors : tumors[t].extension = kw.extension})
              ELSE q3
    IN  q4

-----------------------------------------------------------------------------
(* diagnose_specific *)

\* d: the diagnoses of the cohort's patients with a selected modality
selected_diagnoses(qs, kw) ==
    SelectSeq(diagnoses, LAMBDA x : x.patient \in Members(qs)
                                     /\ x.modality \in kw.modalities)

\* d_ipsi = d.filter(side="ipsi"), d_contra = d.exclude(side="ipsi")
diagnose_querysets(d, side) ==
    IF side = "ipsi"
    THEN SelectSeq(d, LAMBDA x : x.side = "ipsi")
    ELSE SelectSeq(d, LAMBDA x : ~(x.side = "ipsi"))

\* faulty variant: distinct() without the filter on the diagnoses
with_diagnoses_unfiltered(qs, d) == [p \in DOMAIN qs |-> IF qs[p] > 0 THEN 1 ELSE 0]

\* patient_queryset.filter(Q(diagnose__in=d_ipsi) | Q(diagnose__in=d_contra)).distinct()
with_diagnoses(qs, d) ==
    LET d_ipsi == diagnose_querysets(d, "ipsi")
        d_contra == diagnose_querysets(d, "contra")
    IN  [p \in DOMAIN qs |->
            IF /\ qs[p] > 0
               /\ \/ \E i \in DOMAIN d_ipsi : d_ipsi[i].patient = p
                  \/ \E i \in DOMAIN d_contra : d_contra[i].patient = p
            THEN 1 ELSE 0]

\* selected_diagnose[side]: the target pattern, None where the form leaves it open
selected_diagnose(kw, side) == [i \in DOMAIN LNLs |-> kw.selected[side][LNLs[i]]]

\* one row of a table: the LNL values of a diagnose
diag_array(diagnose) == [i \in DOMAIN LNLs |-> diagnose.lnl[LNLs[i]]]

\* diagnose_tables[side]: per patient id the rows of its diagnoses, in query order
diagnose_table(dq, patient_id) ==
    LET own == SelectSeq(dq, LAMBDA x : x.patient = patient_id)
    IN  [r \in DOMAIN own |-> diag_array(own[r])]

table_ids(dq) == {dq[i].patient : i \in DOMAIN dq}

\* a column of a table (diag_table.T[i])
Column(diag_table, i) == [r \in DOMAIN diag_table |-> diag_table[r][i]]

\* faulty variant: combine = all
combine_OR_as_all(col) == PyBool(\A r \in DOMAIN col : Truthy(col[r]))

\* combine = any
combine_OR(col) == PyBool(any(col))

\* faulty variant: combine = all, which takes None for False
combine_AND_none_is_false(col) == PyBool(\A r \in DOMAIN col : Truthy(col[r]))

\* combine = lambda col: not(any([not(e) if e is not None else None for e in col]))
combine_AND(col) ==
    LET negated == [r \in DOMAIN col |-> IF col[r] # None THEN PyNot(col[r]) ELSE None]
    IN  PyNot(PyBool(any(negated)))

valid_combine(kw) == kw.modality_combine \in {"OR", "AND"}

\* the combination of one column, or the ValueError of an unknown policy
combine(kw, col) ==
    IF kw.modality_combine = "OR" THEN combine_OR(col)
    ELSE IF kw.modality_combine = "AND" THEN combine_AND(col)
    ELSE "ValueError"

\* np.all(diag_table == None, axis=0)
all_none_idx(diag_table) ==
    [i \in DOMAIN LNLs |-> \A r \in DOMAIN diag_table : diag_table[r][i] = None]

\* faulty variant: the combination of every column, all_none_idx not applied
consensus_without_all_none(kw, diag_table) ==
    [i \in DOMAIN LNLs |-> combine(kw, Column(diag_table, i))]

\* combined_involvement[side][patient_id]: the combination of every column,
\* then None wherever the whole column is None
consensus(kw, diag_table) ==
    LET combined == [i \in DOMAIN LNLs |-> combine(kw, Column(diag_table, i))]
        idx == all_none_idx(diag_table)
    IN  [i \in DOMAIN LNLs |-> IF idx[i] THEN None ELSE combined[i]]

\* np.all(np.equal(combined, selected, where=mask, out=ones)), mask = selected != None
match(combined, selected) ==
    LET mask == [i \in DOMAIN LNLs |-> selected[i] # None]
    IN  \A i \in DOMAIN LNLs : mask[i] => combined[i] = selected[i]

\* the combined_involvement dictionary of one side
side_involvement(kw, dq) ==
    [p \in table_ids(dq) |-> consensus(kw, diagnose_table(dq, p))]

\* faulty variant: only the ipsilateral pattern removes patients
mismatched_ipsi_only(kw, dq, side) ==
    {p \in table_ids(dq) :
        /\ side = "ipsi"
        /\ ~match(consensus(kw, diagnose_table(dq, p)), selected_diagnose(kw, side))}

\* the patients of one side's table that the pattern removes
mismatched(kw, dq, side) ==
    {p \in table_ids(dq) :
        ~match(consensus(kw, diagnose_table(dq, p)), selected_diagnose(kw, side))}

\* the ValueError of the loop over diagnose_tables[side].items(): raised when
\* the first patient of a table is reached with an unknown modality_combine
diagnose_raises(kw, d) ==
    /\ ~valid_combine(kw)
    /\ \E s \in DOMAIN Sides : table_ids(diagnose_querysets(d, Sides[s])) # {}

\* faulty variant: the dictionaries narrowed to the patients that match
diagnose_specific_involvement_narrowed(qs, kw) ==
    LET d == selected_diagnoses(qs, kw)
        out == UNION {mismatched(kw, diagnose_querysets(d, Sides[s]), Sides[s]) :
                        s \in DOMAIN Sides}
    IN  [side \in {Sides[s] : s \in DOMAIN Sides} |->
            [p \in table_ids(diagnose_querysets(d, side)) \ out |->
                consensus(kw, diagnose_table(diagnose_querysets(d, side), p))]]

diagnose_specific_involvement(qs, kw) ==
    LET d == selected_diagnoses(qs, kw)
    IN  [side \in {Sides[s] : s \in DOMAIN Sides} |->
            side_involvement(kw, diagnose_querysets(d, side))]

diagnose_specific_queryset(qs, kw) ==
    LET d == selected_diagnoses(qs, kw)
        q0 == with_diagnoses(qs, d)
        out == UNION {mismatched(kw, diagnose_querysets(d, Sides[s]), Sides[s]) :
                        s \in DOMAIN Sides}
    IN  [p \in DOMAIN q0 |-> IF p \in out THEN 0 ELSE q0[p]]

-----------------------------------------------------------------------------
(* n_zero_specific *)

\* any(combined_involvement[side][pat_id]), False on a KeyError
has_inv(ci, side, pat_id) ==
    IF pat_id \in DOMAIN ci[side] THEN any(ci[side][pat_id]) ELSE FALSE

\* faulty variant: the N0 branch of the loop left out
n_zero_excluded_n_plus_only(qs, ci, n) ==
    {pat_id \in Members(qs) :
        Truthy(n) /\ ~(has_inv(ci, "ipsi", pat_id) \/ has_inv(ci, "contra", pat_id))}

\* the patients the loop excludes for a given (not None) n_status
n_zero_excluded(qs, ci, n) ==
    {pat_id \in Members(qs) :
        LET has_ipsi_inv == has_inv(ci, "ipsi", pat_id)
            has_contra_inv == has_inv(ci, "contra", pat_id)
        IN  \/ Truthy(n) /\ ~(has_ipsi_inv \/ has_contra_inv)
            \/ ~Truthy(n) /\ (has_ipsi_inv \/ has_contra_inv)}

\* faulty variant: the cohort rebuilt from the keys of combined_involvement
n_zero_specific_from_involvement(qs, ci, n) ==
    [p \in DOMAIN qs |->
        IF n # None /\ p \in n_zero_excluded(qs, ci, n) THEN 0
        ELSE IF \E side \in DOMAIN ci : p \in DOMAIN ci[side] THEN 1
        ELSE qs[p]]

n_zero_specific(qs, ci, n) ==
    IF n = None THEN qs
    ELSE [p \in DOMAIN qs |-> IF p \in n_zero_excluded(qs, ci, n) THEN 0 ELSE qs[p]]

-----------------------------------------------------------------------------
(* count_patients *)

\* Institution.objects.all() of the stores: no institution, or MaxInstitutions
InstitutionTables == {{}, 1..MaxInstitutions}

\* the rows of a QuerySet in primary-key order
RECURSIVE RowsOf(_, _)
RowsOf(qs, S) ==
    IF S = {} THEN <<>>
    ELSE LET p == CHOOSE x \in S : \A y \in S : x <= y
         IN  [k \in 1..qs[p] |-> p] \o RowsOf(qs, S \ {p})

\* faulty variant: the loop over Patient.objects.all() instead of the cohort
Rows_all_patients(qs) == RowsOf([p \in DOMAIN qs |-> 1], DOMAIN qs)

Rows(qs) == RowsOf(qs, DOMAIN qs)

\* faulty variant: 'sex' filled in before the loop, as 'institutions' is
initial_counts_with_sex(qs) ==
    IF institutions # {}
    THEN [error |-> institution_filter_error, counts |-> <<>>]
    ELSE [error |-> "none", counts |->
    [total           |-> QLen(qs),
     institutions    |-> <<>>,
     sex             |-> <<0,
                           QLen(FilterPatients(qs, {x \in PatientIds : patients[x].sex = "female"})),
                           QLen(FilterPatients(qs, {x \in PatientIds : patients[x].sex = "male"}))>>,
     nicotine_abuse  |-> Zeros(3),
     hpv_status      |-> Zeros(3),
     neck_dissection |-> Zeros(3),
     n_status        |-> Zeros(3),
     subsites        |-> Zeros(Len(SUBSITE_DICT)),
     t_stages        |-> Zeros(Len(T_stages)),
     central         |-> Zeros(3),
     extension       |-> Zeros(3),
     involvement     |-> [side \in {Sides[s] : s \in DOMAIN Sides} |->
                            [lnl \in LNLNames |-> Zeros(3)]]]]

\* the counts dictionary as initialised before the loop. 'institutions' calls
\* patients.filter(institution=inst) for every stored institution: Patient
\* declares no field `institution`, so the first call raises and no
\* dictionary is built; without a stored institution the array is empty.
initial_counts(qs) ==
    IF institutions # {}
    THEN [error |-> institution_filter_error, counts |-> <<>>]
    ELSE [error |-> "none", counts |->
    [total           |-> QLen(qs),
     institutions    |-> <<>>,
     sex             |-> Zeros(3),
     nicotine_abuse  |-> Zeros(3),
     hpv_status      |-> Zeros(3),
     neck_dissection |-> Zeros(3),
     n_status        |-> Zeros(3),
     subsites        |-> Zeros(Len(SUBSITE_DICT)),
     t_stages        |-> Zeros(Len(T_stages)),
     central         |-> Zeros(3),
     extension       |-> Zeros(3),
     involvement     |-> [side \in {Sides[s] : s \in DOMAIN Sides} |->
                            [lnl \in LNLNames |-> Zeros(3)]]]]

\* faulty variant: tumor_set.last()
last_tumor(patient_id) ==
    LET own == {i \in DOMAIN tumors : tumors[i].patient = patient_id}
    IN  IF own = {} THEN 0 ELSE CHOOSE i \in own : \A j \in own : i >= j

\* patient.tumor_set.first(): the index of the patient's first tumor, 0 for None
first_tumor(patient_id) ==
    LET own == {i \in DOMAIN tumors : tumors[i].patient = patient_id}
    IN  IF own = {} THEN 0 ELSE CHOOSE i \in own : \A j \in own : i <= j

\* counts['t_stages'][tumor.t_stage-1] += 1: Python's index, negative from the end
t_stage_index(t_stage) ==
    LET idx == t_stage - 1
        n == Len(T_stages)
    IN  IF idx >= 0 /\ idx < n THEN idx + 1
        ELSE IF idx < 0 /\ idx >= -n THEN idx + n + 1
        ELSE 0

\* the exception one pass of the loop body raises for a patient, or "none"
count_error(ci, patient_id) ==
    LET t == first_tumor(patient_id)
    IN  IF t = 0 THEN "AttributeError"
        ELSE IF t_stage_index(tumors[t].t_stage) = 0 THEN "IndexError"
        ELSE IF patient_id \notin DOMAIN ci["contra"] THEN "KeyError"
        ELSE IF patient_id \notin DOMAIN ci["ipsi"] THEN "KeyError"
        ELSE "none"

\* one pass of the loop body for a patient for which it raises nothing
count_one(c, ci, patient_id) ==
    LET patient == patients[patient_id]
        tumor == tumors[first_tumor(patient_id)]
        has_contra == any(ci["contra"][patient_id])
        has_ipsi == any(ci["ipsi"][patient_id])
    IN  [c EXCEPT
            !.nicotine_abuse = VecAdd(@, tf2arr(patient.nicotine_abuse)),
            !.hpv_status = VecAdd(@, tf2arr(patient.hpv_status)),
            !.neck_dissection = VecAdd(@, tf2arr(patient.neck_dissection)),
            !.subsites = VecAdd(@, subsite2arr({tumor.subsite})),
            !.t_stages = [@ EXCEPT ![t_stage_index(tumor.t_stage)] = @ + 1],
            !.central = VecAdd(@, tf2arr(tumor.central)),
            !.extension = VecAdd(@, tf2arr(tumor.extension)),
            !.n_status = IF ~has_ipsi /\ ~has_contra
                         THEN VecAdd(@, <<0, 0, 1>>)
                         ELSE VecAdd(@, <<0, 1, 0>>),
            !.involvement = [side \in DOMAIN @ |->
                                [lnl \in LNLNames |->
                                    LET i == CHOOSE k \in DOMAIN LNLs : LNLs[k] = lnl
                                    IN  VecAdd(@[side][lnl],
                                               tf2arr(ci[side][patient_id][i]))]]]

\* the loop over the rows: the counts, or the first exception raised
RECURSIVE count_loop(_, _, _)
count_loop(c, ci, rows) ==
    IF rows = <<>> THEN [error |-> "none", counts |-> c]
    ELSE LET e == count_error(ci, Head(rows))
         IN  IF e # "none" THEN [error |-> e, counts |-> c]
             ELSE count_loop(count_one(c, ci, Head(rows)), ci, Tail(rows))

\* the counts, or the first exception raised: before the loop or in it
count_patients(qs, ci) ==
    LET initial == initial_counts(qs)
    IN  IF initial.error # "none" THEN initial
        ELSE count_loop(initial.counts, ci, Rows(qs))

-----------------------------------------------------------------------------
(* Model instances and the tables: django.db.models.Model *)

\* the primary key of an instance that has no row: Python's None
NoPk == 0

\* Model.save(): the row of the instance is inserted under a fresh primary key
\* when the instance has none, and written under its own otherwise
pk_after_save(obj) == IF obj.pk = NoPk THEN next_pk[obj.model] ELSE obj.pk

next_pk_after_save(obj) ==
    IF obj.pk = NoPk THEN [next_pk EXCEPT ![obj.model] = @ + 1] ELSE next_pk

\* a table with the row pk written
Written(table, pk, row) ==
    [k \in DOMAIN table \cup {pk} |-> IF k = pk THEN row ELSE table[k]]

\* a table with the row pk deleted
Deleted(table, pk) == [k \in DOMAIN table \ {pk} |-> table[k]]

-----------------------------------------------------------------------------
(* Diagnose.save *)

\* the superlevels with their two sublevels
Sublevels ==
    {[super |-> "I", a |-> "Ia", b |-> "Ib"],
     [super |-> "II", a |-> "IIa", b |-> "IIb"],
     [super |-> "V", a |-> "Va", b |-> "Vb"]}

all_unknown(lnl) == \A name \in LNLNames : lnl[name] = None

safe_negate(x) == IF x = None THEN False ELSE PyNot(x)

\* faulty variant: an unknown sublevel taken for a healthy one
superlevel_none_is_healthy(super, a, b) ==
    IF Truthy(a) \/ Truthy(b) THEN True
    ELSE False

\* the value of a superlevel after the if / elif on its sublevels a and b
superlevel(super, a, b) ==
    IF Truthy(a) \/ Truthy(b) THEN True
    ELSE IF Truthy(safe_negate(a)) /\ Truthy(safe_negate(b)) THEN False
    ELSE super

\* the LNL fields of the instance when super().save() is reached
consistent_lnl(lnl) ==
    [name \in LNLNames |->
        IF \E g \in Sublevels : g.super = name
        THEN LET g == CHOOSE h \in Sublevels : h.super = name
             IN  superlevel(lnl[name], lnl[g.a], lnl[g.b])
        ELSE lnl[name]]

\* the row of a Diagnose instance
diagnose_row(obj, lnl) ==
    [patient |-> obj.patient, modality |-> obj.modality, side |-> obj.side,
     lnl |-> lnl]

\* faulty variant: a void diagnose is saved like any other
diagnose_save_keeps_void(table, obj) ==
    [table |-> Written(table, pk_after_save(obj),
                       diagnose_row(obj, consistent_lnl(obj.lnl))),
     obj |-> [obj EXCEPT !.pk = pk_after_save(obj), !.lnl = consistent_lnl(obj.lnl)]]

\* Diagnose.save: the Diagnose table and the instance after the call
diagnose_save(table, obj) ==
    IF all_unknown(obj.lnl)
    THEN \* super().save(), then self.delete()
         [table |-> Deleted(table, pk_after_save(obj)),
          obj |-> [obj EXCEPT !.pk = NoPk]]
    ELSE [table |-> Written(table, pk_after_save(obj),
                            diagnose_row(obj, consistent_lnl(obj.lnl))),
          obj |-> [obj EXCEPT !.pk = pk_after_save(obj),
                              !.lnl = consistent_lnl(obj.lnl)]]

\* instance.save() of a Diagnose instance
DiagnoseSave ==
    /\ pc = "models"
    /\ steps < MaxSteps
    /\ \E i \in DOMAIN instances :
        /\ instances[i].model = "Diagnose"
        /\ LET res == diagnose_save(diagnoses, instances[i])
           IN  /\ diagnoses' = res.table
               /\ instances' = [instances EXCEPT ![i] = res.obj]
               /\ next_pk' = next_pk_after_save(instances[i])
    /\ steps' = steps + 1
    /\ UNCHANGED <<patients, tumors, datasets, storage, log, institutions, queryVars, encoderVars,
                   pc, error>>

-----------------------------------------------------------------------------
(* Patient.update_t_stage, Tumor.save, Tumor.delete, Patient.save, Patient.delete *)

\* Tumor.SUBSITES: the subsites, each a code and its label, grouped by location
SUBSITES ==
    << [location |-> "oral cavity",
        subsites |-> {<<"C02.0", "dorsal surface of tongue">>,
                      <<"C02.1", "border of tongue">>,
                      <<"C02.2", "ventral surface of tongue">>,
                      <<"C02.3", "anterior two thirds of tongue">>,
                      <<"C02.4", "lingual tonsil">>,
                      <<"C02.8", "overlapping sites of tongue">>,
                      <<"C02.9", "tongue, nos">>, <<"C03.0", "upper gum">>,
                      <<"C03.1", "lower gum">>, <<"C03.9", "gum, nos">>,
                      <<"C04.0", "anterior floor of mouth">>,
                      <<"C04.1", "lateral floor of mouth">>,
                      <<"C04.8", "overlapping lesion of floor of mouth">>,
                      <<"C04.9", "floor of mouth, nos">>, <<"C05.0", "hard palate">>,
                      <<"C05.1", "soft palate, nos">>, <<"C05.2", "uvula">>,
                      <<"C05.8", "overlapping lesion of palate">>,
                      <<"C05.9", "palate, nos">>, <<"C06.0", "cheeck mucosa">>,
                      <<"C06.1", "vestibule of mouth">>, <<"C06.2", "retromolar area">>,
                      <<"C06.8", "overlapping lesion(s) of NOS parts of mouth">>,
                      <<"C06.9", "mouth, nos">>, <<"C08.0", "submandibular gland">>,
                      <<"C08.1", "sublingual gland">>, <<"C08.9", "salivary gland, nos">>}],
       [location |-> "oropharynx",
        subsites |-> {<<"C01", "base of tongue, nos">>, <<"C09.0", "tonsillar fossa">>,
                      <<"C09.1", "tonsillar pillar">>,
                      <<"C09.8", "overlapping lesion of tonsil">>,
                      <<"C09.9", "tonsil, nos">>, <<"C10.0", "vallecula">>,
                      <<"C10.1", "anterior surface of epiglottis">>,
                      <<"C10.2", "lateral wall of oropharynx">>,
                      <<"C10.3", "posterior wall of oropharynx">>,
                      <<"C10.4", "branchial cleft">>,
                      <<"C10.8", "overlapping lesions of oropharynx">>,
                      <<"C10.9", "oropharynx, nos">>}],
       [location |-> "hypopharynx",
        subsites |-> {<<"C12", "pyriform sinus">>, <<"C13.0", "postcricoid region">>,
                      <<"C13.1", "hypopharyngeal aspect of aryepiglottic fold">>,
                      <<"C13.2", "posterior wall of hypopharynx">>,
                      <<"C13.8", "overlapping lesion of hypopharynx">>,
                      <<"C13.9", "hypopharynx, nos">>}],
       [location |-> "larynx",
        subsites |-> {<<"C32.0", "glottis">>, <<"C32.1", "supraglottis">>,
                      <<"C32.2", "subglottis">>, <<"C32.3", "laryngeal cartilage">>,
                      <<"C32.8", "overlapping lesion of larynx">>,
                      <<"C32.9", "larynx, nos">>}] >>

\* get_subsite_display(): the label of the subsite when it is one of the
\* codes of SUBSITES, the value itself otherwise
get_subsite_display(tumor) ==
    LET choices == UNION {SUBSITES[k].subsites : k \in DOMAIN SUBSITES}
    IN  IF \E pair \in choices : pair[1] = tumor.subsite
        THEN (CHOOSE pair \in choices : pair[1] = tumor.subsite)[2]
        ELSE tumor.subsite

\* the locations whose labels hold the displayed subsite of the tumor
matching_locations(tumor) ==
    {k \in DOMAIN SUBSITES :
        \E pair \in SUBSITES[k].subsites : pair[2] = get_subsite_display(tumor)}

\* the location Tumor.save extracts from the subsite: the last location whose
\* labels hold the displayed subsite, the tumor's own location when none does
found_location(tumor) ==
    LET found == matching_locations(tumor)
    IN  IF found = {} THEN tumor.location
        ELSE SUBSITES[CHOOSE k \in found : \A j \in found : j <= k].location

\* the row of a Tumor instance
tumor_row(obj) ==
    [patient |-> obj.patient, subsite |-> obj.subsite, t_stage |-> obj.t_stage,
     stage_prefix |-> obj.stage_prefix, central |-> obj.central,
     extension |-> obj.extension, location |-> found_location(obj)]

\* the loop of update_t_stage over the tumors `pks` of the patient, in
\* primary-key order: the highest T-stage and the prefix of the first tumor
\* that has it
RECURSIVE max_t_stage(_, _, _)
max_t_stage(table, pks, acc) ==
    IF pks = {} THEN acc
    ELSE LET k == CHOOSE x \in pks : \A y \in pks : x <= y
             tumor == table[k]
         IN  max_t_stage(table, pks \ {k},
                         IF acc.max_t_stage < tumor.t_stage
                         THEN [max_t_stage |-> tumor.t_stage,
                               stage_prefix |-> tumor.stage_prefix]
                         ELSE acc)

\* faulty variant: the T-stage of the patient left as it is
update_t_stage_skipped(patient_table, tumor_table, patient_pk) == patient_table

\* Patient.update_t_stage followed by its self.save(): the Patient table
update_t_stage(patient_table, tumor_table, patient_pk) ==
    LET own == {k \in DOMAIN tumor_table : tumor_table[k].patient = patient_pk}
        res == max_t_stage(tumor_table, own, [max_t_stage |-> 0, stage_prefix |-> "c"])
    IN  Written(patient_table, patient_pk,
                [patient_table[patient_pk] EXCEPT !.t_stage = res.max_t_stage,
                                                  !.stage_prefix = res.stage_prefix])

\* the exception update_t_stage ends with: after self.save() it formats the
\* patient into its debug message, and Patient.__str__ reads self.institution,
\* an attribute Patient does not have
update_t_stage_error == "AttributeError"

\* instance.save() of a Tumor instance: the row is written, the patient
\* updated, then update_t_stage raises
TumorSave ==
    /\ pc = "models"
    /\ steps < MaxSteps
    /\ \E i \in DOMAIN instances :
        /\ instances[i].model = "Tumor"
        /\ LET obj == instances[i]
               pk == pk_after_save(obj)
               saved == Written(tumors, pk, tumor_row(obj))
           IN  /\ tumors' = saved
               /\ patients' = update_t_stage(patients, saved, obj.patient)
               /\ instances' = [instances EXCEPT ![i] =
                                    [obj EXCEPT !.pk = pk,
                                                !.location = found_location(obj)]]
               /\ next_pk' = next_pk_after_save(obj)
               /\ log' = IF matching_locations(obj) # {}
                         THEN log
                         ELSE Append(log, "Could not extract location for this tumor's subsite")
    /\ error' = update_t_stage_error
    /\ steps' = steps + 1
    /\ UNCHANGED <<diagnoses, datasets, storage, institutions, queryVars, encoderVars, pc>>

\* instance.delete() of a Tumor instance that has a row: the row is deleted,
\* the patient updated, then update_t_stage raises
TumorDelete ==
    /\ pc = "models"
    /\ steps < MaxSteps
    /\ \E i \in DOMAIN instances :
        /\ instances[i].model = "Tumor"
        /\ instances[i].pk # NoPk
        /\ LET obj == instances[i]
               left == Deleted(tumors, obj.pk)
           IN  /\ tumors' = left
               /\ patients' = update_t_stage(patients, left, obj.patient)
               /\ instances' = [instances EXCEPT ![i] = [obj EXCEPT !.pk = NoPk]]
    /\ error' = update_t_stage_error
    /\ steps' = steps + 1
    /\ UNCHANGED <<diagnoses, datasets, storage, log, next_pk, institutions, queryVars,
                   encoderVars, pc>>

\* instance.delete() of a Diagnose instance that has a row
DiagnoseDelete ==
    /\ pc = "models"
    /\ steps < MaxSteps
    /\ \E i \in DOMAIN instances :
        /\ instances[i].model = "Diagnose"
        /\ instances[i].pk # NoPk
        /\ diagnoses' = Deleted(diagnoses, instances[i].pk)
        /\ instances' = [instances EXCEPT ![i] = [@ EXCEPT !.pk = NoPk]]
    /\ steps' = steps + 1
    /\ UNCHANGED <<patients, tumors, datasets, storage, log, next_pk, institutions, queryVars,
                   encoderVars, pc, error>>

\* instance.save() of a Patient instance: Model.save, which Patient does not
\* override; an instance without a row (after its delete) is inserted
PatientSave ==
    /\ pc = "models"
    /\ steps < MaxSteps
    /\ \E i \in DOMAIN instances :
        /\ instances[i].model = "Patient"
        /\ LET obj == instances[i]
               pk == pk_after_save(obj)
           IN  /\ patients' = Written(patients, pk, obj.row)
               /\ instances' = [instances EXCEPT ![i] = [obj EXCEPT !.pk = pk]]
               /\ next_pk' = next_pk_after_save(obj)
    /\ steps' = steps + 1
    /\ UNCHANGED <<tumors, diagnoses, datasets, storage, log, institutions, queryVars,
                   encoderVars, pc, error>>

\* Tumor.objects.all().filter(patient=self) and
\* Patient.objects.all().filter(dataset=self) of an instance without a row:
\* Django before 5.0 compares the key with NULL and finds no row, Django
\* from 5.0 on raises ValueError; the repository pins no version
unsaved_filter_outcomes(obj) ==
    IF obj.pk = NoPk THEN {"none", "ValueError"} ELSE {"none"}

\* instance.update_t_stage() of a Patient instance, called directly: the
\* T-stage and prefix of the instance are set from the stored tumors of the
\* patient, the instance is saved with all its fields, then the debug
\* message raises
PatientUpdateTStage ==
    /\ pc = "models"
    /\ steps < MaxSteps
    /\ \E i \in DOMAIN instances :
        /\ instances[i].model = "Patient"
        /\ \E outcome \in unsaved_filter_outcomes(instances[i]) :
            IF outcome # "none"
            THEN /\ error' = outcome
                 /\ UNCHANGED <<patients, instances, next_pk>>
            ELSE LET obj == instances[i]
                     pk == pk_after_save(obj)
                     set == update_t_stage(Written(patients, pk, obj.row), tumors, pk)
                 IN  /\ patients' = set
                     /\ instances' = [instances EXCEPT ![i] =
                                          [obj EXCEPT !.pk = pk, !.row = set[pk]]]
                     /\ next_pk' = next_pk_after_save(obj)
                     /\ error' = update_t_stage_error
    /\ steps' = steps + 1
    /\ UNCHANGED <<tumors, diagnoses, datasets, storage, log, institutions, queryVars,
                   encoderVars, pc>>

\* instance.delete() of a Patient instance that has a row: the tumors and the
\* diagnoses of the patient go with it (on_delete=CASCADE)
PatientDelete ==
    /\ pc = "models"
    /\ steps < MaxSteps
    /\ \E i \in DOMAIN instances :
        /\ instances[i].model = "Patient"
        /\ instances[i].pk # NoPk
        /\ LET pk == instances[i].pk
           IN  /\ patients' = Deleted(patients, pk)
               /\ tumors' = [k \in {j \in DOMAIN tumors : tumors[j].patient # pk} |->
                                tumors[k]]
               /\ diagnoses' = [k \in {j \in DOMAIN diagnoses :
                                            diagnoses[j].patient # pk} |-> diagnoses[k]]
               /\ instances' = [instances EXCEPT ![i] = [@ EXCEPT !.pk = NoPk]]
    /\ steps' = steps + 1
    /\ UNCHANGED <<datasets, storage, log, next_pk, institutions, queryVars, encoderVars, pc, error>>

-----------------------------------------------------------------------------
(* Dataset: _validate_unique, validate_unique, save, lock, unlock *)

\* the content of a file, which its MD5 hash stands for: a tag for an
\* uploaded table, the exported rows for a table written from the database;
\* Content("") in a FieldFile whose content is in the storage
Content(tag) == [tag |-> tag, rows |-> {}]

\* a FileField without a file
NoFile == [name |-> <<>>, file |-> Content(""), committed |-> FALSE]

has_file(file) == file # NoFile

\* the path upload_to gives a file of the dataset: directory_(used_for, instance)
directory_(used_for, obj) == <<used_for, obj.name>>

used_for(fieldname) == IF fieldname = "upload_csv" THEN "uploads" ELSE "exports"

\* a FieldFile of the storage
CommittedFile(path) == [name |-> path, file |-> Content(""), committed |-> TRUE]

\* file.md5_hash over the storage `files`: ValueError without a file, the
\* hash of the assigned content for a file not yet stored, the hash of what
\* the storage holds under the name of a stored file, FileNotFoundError when
\* it holds nothing there
md5_hash(files, file) ==
    IF ~has_file(file) THEN [error |-> "ValueError", value |-> Content("")]
    ELSE IF ~file.committed THEN [error |-> "none", value |-> file.file]
    ELSE IF file.name \in DOMAIN files THEN [error |-> "none", value |-> files[file.name]]
    ELSE [error |-> "FileNotFoundError", value |-> Content("")]

\* the loop of _validate_unique over the other datasets `pks`, in primary-key
\* order, from the state st of the call (the instance, the storage, the log,
\* the exception raised): a ValueError of either hash skips the dataset, any
\* other exception leaves the loop; a duplicate is deleted from the instance
\* and the storage when do_delete is set, and raises when do_raise is set
RECURSIVE validate_unique_loop(_, _, _, _, _, _)
validate_unique_loop(table, pks, for_fieldname, do_delete, do_raise, st) ==
    IF pks = {} \/ st.error # "none" THEN st
    ELSE LET pk == CHOOSE x \in pks : \A y \in pks : x <= y
             rest == pks \ {pk}
             self_hash == md5_hash(st.storage, st.obj[for_fieldname])
             ds_hash == md5_hash(st.storage, table[pk][for_fieldname])
             deleted == IF do_delete
                        THEN [st EXCEPT
                                !.obj[for_fieldname] = NoFile,
                                !.storage = Deleted(@, st.obj[for_fieldname].name),
                                !.log = Append(@,
                                    IF for_fieldname = "upload_csv"
                                    THEN "The upload_csv was deleted because it is a duplicate"
                                    ELSE "The export_csv was deleted because it is a duplicate")]
                        ELSE st
         IN  IF self_hash.error = "ValueError"
             THEN validate_unique_loop(table, rest, for_fieldname, do_delete, do_raise, st)
             ELSE IF self_hash.error # "none" THEN [st EXCEPT !.error = self_hash.error]
             ELSE IF ds_hash.error = "ValueError"
             THEN validate_unique_loop(table, rest, for_fieldname, do_delete, do_raise, st)
             ELSE IF ds_hash.error # "none" THEN [st EXCEPT !.error = ds_hash.error]
             ELSE IF self_hash.value # ds_hash.value
             THEN validate_unique_loop(table, rest, for_fieldname, do_delete, do_raise, st)
             ELSE IF do_raise THEN [deleted EXCEPT !.error = "DuplicateFileError"]
             ELSE validate_unique_loop(table, rest, for_fieldname, do_delete, do_raise,
                                       deleted)

\* Dataset._validate_unique of the instance of st against the stored datasets
validate_unique_of(for_fieldname, do_delete, do_raise, st) ==
    validate_unique_loop(datasets, DOMAIN datasets \ {st.obj.pk}, for_fieldname,
                         do_delete, do_raise, st)

\* FileField.pre_save in Model.save: a file not yet in the storage is written
\* to the path of directory_, which first removes what is stored there
pre_save(for_fieldname, st) ==
    LET file == st.obj[for_fieldname]
        path == directory_(used_for(for_fieldname), st.obj)
    IN  IF has_file(file) /\ ~file.committed
        THEN [st EXCEPT !.obj[for_fieldname] = CommittedFile(path),
                        !.storage = Written(Deleted(@, path), path, file.file)]
        ELSE st

\* the row of a Dataset instance
dataset_row(obj) ==
    [name |-> obj.name, is_locked |-> obj.is_locked,
     upload_csv |-> obj.upload_csv, export_csv |-> obj.export_csv]

\* faulty variant: override not looked at, a locked instance is never saved
save_blocked_despite_override(obj, override) == obj.is_locked

\* faulty variant: the lock looked up nowhere, every save goes through
save_blocked_never(obj, override) == FALSE

\* the guard of Dataset.save: the instance is locked and override is not set
save_blocked(obj, override) == obj.is_locked /\ ~override

\* Dataset.save over the storage `files`: the Dataset table, the instance,
\* the storage, the log, the primary-key sequence and the exception after
\* the call
dataset_save(files, obj, override) ==
    IF save_blocked(obj, override)
    THEN [datasets |-> datasets, obj |-> obj, storage |-> files,
          log |-> Append(log, "Editing a locked dataset is prohibited."),
          next_pk |-> next_pk, error |-> "none"]
    ELSE LET called == [obj |-> obj, storage |-> files, log |-> log, error |-> "none"]
             upload == validate_unique_of("upload_csv", TRUE, FALSE, called)
             export == validate_unique_of("export_csv", TRUE, FALSE, upload)
             stored == pre_save("export_csv", pre_save("upload_csv", export))
             saved == [stored.obj EXCEPT !.pk = pk_after_save(obj)]
         IN  IF export.error # "none"
             THEN [datasets |-> datasets, obj |-> export.obj, storage |-> export.storage,
                   log |-> export.log, next_pk |-> next_pk, error |-> export.error]
             ELSE [datasets |-> Written(datasets, saved.pk, dataset_row(saved)),
                   obj |-> saved, storage |-> stored.storage, log |-> stored.log,
                   next_pk |-> next_pk_after_save(obj), error |-> "none"]

\* the effect of a call of save on instance i over the storage `files`, after
\* the fields of the instance have become those of obj
SaveInstanceOver(files, i, obj, override) ==
    LET res == dataset_save(files, obj, override)
    IN  /\ datasets' = res.datasets
        /\ instances' = [instances EXCEPT ![i] = res.obj]
        /\ storage' = res.storage
        /\ log' = res.log
        /\ next_pk' = res.next_pk
        /\ error' = IF res.error = "none" THEN error ELSE res.error

SaveInstance(i, obj, override) == SaveInstanceOver(storage, i, obj, override)

\* instance.save() and instance.save(override=True) of a Dataset instance
DatasetSave ==
    /\ pc = "models"
    /\ steps < MaxSteps
    /\ \E i \in DOMAIN instances, override \in BOOLEAN :
        /\ instances[i].model = "Dataset"
        /\ SaveInstance(i, instances[i], override)
    /\ steps' = steps + 1
    /\ UNCHANGED <<patients, tumors, diagnoses, institutions, queryVars, encoderVars, pc>>

\* instance.lock()
DatasetLock ==
    /\ pc = "models"
    /\ steps < MaxSteps
    /\ \E i \in DOMAIN instances :
        /\ instances[i].model = "Dataset"
        /\ SaveInstance(i, [instances[i] EXCEPT !.is_locked = TRUE], TRUE)
    /\ steps' = steps + 1
    /\ UNCHANGED <<patients, tumors, diagnoses, institutions, queryVars, encoderVars, pc>>

\* instance.unlock()
DatasetUnlock ==
    /\ pc = "models"
    /\ steps < MaxSteps
    /\ \E i \in DOMAIN instances :
        /\ instances[i].model = "Dataset"
        /\ SaveInstance(i, [instances[i] EXCEPT !.is_locked = FALSE], FALSE)
    /\ steps' = steps + 1
    /\ UNCHANGED <<patients, tumors, diagnoses, institutions, queryVars, encoderVars, pc>>

\* instance.validate_unique(): a ValidationError for a duplicate upload,
\* nothing deleted
DatasetValidateUnique ==
    /\ pc = "models"
    /\ steps < MaxSteps
    /\ \E i \in DOMAIN instances :
        /\ instances[i].model = "Dataset"
        /\ LET res == validate_unique_of("upload_csv", FALSE, TRUE,
                            [obj |-> instances[i], storage |-> storage, log |-> log,
                             error |-> "none"])
           IN  error' = IF res.error = "DuplicateFileError" THEN "ValidationError"
                        ELSE res.error
    /\ steps' = steps + 1
    /\ UNCHANGED <<patients, tumors, diagnoses, datasets, instances, storage, log,
                   next_pk, institutions, queryVars, encoderVars, pc>>

\* get_pandas_from_db and to_csv: the table of the patients of the dataset
get_pandas_from_db(obj) ==
    [tag |-> "db",
     rows |-> {<<p, patients[p]>> : p \in {q \in DOMAIN patients :
                                            patients[q].dataset = obj.pk}}]

\* instance.export_db_to_csv(): the table of the patients of the dataset is
\* written to the export path, whatever the lock says, the file set on the
\* instance, and the instance saved without override
DatasetExportDbToCsv ==
    /\ pc = "models"
    /\ steps < MaxSteps
    /\ \E i \in DOMAIN instances :
        /\ instances[i].model = "Dataset"
        /\ \E outcome \in unsaved_filter_outcomes(instances[i]) :
            IF outcome # "none"
            THEN /\ error' = outcome
                 /\ UNCHANGED <<datasets, instances, storage, log, next_pk>>
            ELSE LET obj == instances[i]
                     path == directory_(used_for("export_csv"), obj)
                     files == Written(Deleted(storage, path), path,
                                      get_pandas_from_db(obj))
                 IN  SaveInstanceOver(files, i,
                                      [obj EXCEPT !.export_csv = CommittedFile(path)],
                                      FALSE)
    /\ steps' = steps + 1
    /\ UNCHANGED <<patients, tumors, diagnoses, institutions, queryVars, encoderVars, pc>>

-----------------------------------------------------------------------------
(* The request: the stages of the dashboard query, each one call *)

PatientSpecific ==
    /\ pc = "patient_specific"
    /\ received' = patient_queryset
    /\ LET res == patient_specific(patient_queryset, kwargs)
       IN  IF res.error # "none"
           THEN /\ error' = res.error
                /\ pc' = "failed"
                /\ UNCHANGED patient_queryset
           ELSE /\ patient_queryset' = res.queryset
                /\ pc' = "tumor_specific"
                /\ UNCHANGED error
    /\ UNCHANGED <<patients, tumors, diagnoses, kwargs, n_status,
                   combined_involvement, counts>>
    /\ UNCHANGED <<modelVars, encoderVars, log>>

TumorSpecific ==
    /\ pc = "tumor_specific"
    /\ patient_queryset' = tumor_specific(patient_queryset, kwargs)
    /\ received' = patient_queryset
    /\ pc' = "diagnose_specific"
    /\ UNCHANGED <<patients, tumors, diagnoses, kwargs, n_status,
                   combined_involvement, counts, error>>
    /\ UNCHANGED <<modelVars, encoderVars, log>>

DiagnoseSpecific ==
    /\ pc = "diagnose_specific"
    /\ received' = patient_queryset
    /\ IF diagnose_raises(kwargs, selected_diagnoses(patient_queryset, kwargs))
       THEN /\ error' = "ValueError"
            /\ pc' = "failed"
            /\ UNCHANGED <<patient_queryset, combined_involvement>>
       ELSE /\ patient_queryset' = diagnose_specific_queryset(patient_queryset, kwargs)
            /\ combined_involvement' =
                    diagnose_specific_involvement(patient_queryset, kwargs)
            /\ pc' = "n_zero_specific"
            /\ UNCHANGED error
    /\ UNCHANGED <<patients, tumors, diagnoses, kwargs, n_status, counts>>
    /\ UNCHANGED <<modelVars, encoderVars, log>>

NZeroSpecific ==
    /\ pc = "n_zero_specific"
    /\ \E n \in Ternary :
        /\ n_status' = n
        /\ patient_queryset' = n_zero_specific(patient_queryset, combined_involvement, n)
    /\ received' = patient_queryset
    /\ pc' = "count_patients"
    /\ UNCHANGED <<patients, tumors, diagnoses, kwargs, combined_involvement,
                   counts, error>>
    /\ UNCHANGED <<modelVars, encoderVars, log>>

CountPatients ==
    /\ pc = "count_patients"
    /\ received' = patient_queryset
    /\ LET res == count_patients(patient_queryset, combined_involvement)
       IN  IF res.error # "none"
           THEN /\ error' = res.error
                /\ pc' = "failed"
                /\ UNCHANGED counts
           ELSE /\ counts' = res.counts
                /\ pc' = "done"
                /\ UNCHANGED error
    /\ UNCHANGED <<patients, tumors, diagnoses, kwargs, n_status, patient_queryset,
                   combined_involvement>>
    /\ UNCHANGED <<modelVars, encoderVars, log>>

-----------------------------------------------------------------------------
(* The stores and requests the specifications start from *)

AllSides == {Sides[s] : s \in DOMAIN Sides}

SeqsUpTo(S, n) == UNION {[1..k -> S] : k \in 0..n}

\* LNL values of a diagnose that reports exactly one of the levels of `levels`.
\* (Diagnose.save deletes a diagnose whose levels are all None: none is stored.)
LNLValuesOn(levels) ==
    {[lnl \in LNLNames |-> IF lnl = known THEN v ELSE None] :
        known \in levels, v \in {True, False}}

\* levels without sublevels, so that save() leaves the stored values as reported
VariedLNLs == {"III", "IV"}

StoredLNLValues == LNLValuesOn(VariedLNLs)

StoredModalities == {"CT", "MRI"}

\* diagnoses of any patient, side and stored modality
DiagnoseRecords ==
    [patient : 1..MaxPatients, modality : StoredModalities, side : AllSides,
     lnl : StoredLNLValues]

\* diagnoses of the first patient with the first modality
DeepRecords ==
    [patient : {1}, modality : {"CT"}, side : AllSides, lnl : StoredLNLValues]

\* Diagnose tables: up to MaxDiagnoses diagnoses of any shape, or MaxObservations
\* diagnoses of one patient
DiagnoseTables ==
    SeqsUpTo(DiagnoseRecords, MaxDiagnoses) \cup [1..MaxObservations -> DeepRecords]

\* the target pattern of the form: definite on at most the positions of `keys`
TargetsOn(keys) ==
    {[side \in AllSides |-> [lnl \in LNLNames |->
            IF <<side, lnl>> \in keys THEN v[<<side, lnl>>] ELSE None]] :
        v \in [keys -> Ternary]}

NoTarget == [side \in AllSides |-> [lnl \in LNLNames |-> None]]

DefaultPatient(p) ==
    [sex |-> "male", nicotine_abuse |-> True, hpv_status |-> None,
     neck_dissection |-> False]

DefaultTumor(p) ==
    [patient |-> p, subsite |-> "C09.9", t_stage |-> 2, central |-> False,
     extension |-> None]

\* a request that filters on nothing but the diagnoses
QueryKwargs(modalities, modality_combine, selected) ==
    [nicotine_abuse |-> None, hpv_status |-> None, neck_dissection |-> None,
     institution__in |-> NoCriterion,
     subsite__in |-> NoCriterion, t_stage__in |-> NoCriterion,
     central |-> None, extension |-> None,
     modalities |-> modalities, modality_combine |-> modality_combine,
     selected |-> selected]

NoInvolvement == [side \in AllSides |-> <<>>]

\* no dataset, no instance in memory, no file, nothing logged
NoModelOperation ==
    /\ datasets = <<>>
    /\ instances = <<>>
    /\ storage = <<>>
    /\ log = <<>>
    /\ steps = 0
    /\ next_pk = <<>>

\* no encoder is called
NoEncoderCall ==
    /\ call = [op |-> "none"]
    /\ result = <<>>

\* A request at diagnose_specific: every patient has one tumor, the diagnoses,
\* the selected modalities, the policy and the target pattern vary.
InitQuery ==
    /\ patients = [p \in 1..MaxPatients |-> DefaultPatient(p)]
    /\ tumors = [p \in 1..MaxPatients |-> DefaultTumor(p)]
    /\ diagnoses \in DiagnoseTables
    /\ \E modalities \in {{}, {"CT"}, {"CT", "MRI"}},
          modality_combine \in {"OR", "AND", "XOR"},
          selected \in TargetsOn({<<"ipsi", "III">>, <<"contra", "III">>}) :
            kwargs = QueryKwargs(modalities, modality_combine, selected)
    /\ n_status = None
    /\ patient_queryset = [p \in 1..MaxPatients |-> 1]
    /\ received = patient_queryset
    /\ combined_involvement = NoInvolvement
    /\ counts = <<>>
    /\ pc = "diagnose_specific"
    /\ error = "none"
    /\ NoModelOperation
    /\ NoEncoderCall
    /\ institutions \in InstitutionTables

NextQuery == DiagnoseSpecific \/ NZeroSpecific \/ CountPatients

SpecQuery == InitQuery /\ [][NextQuery]_vars

\* a subsite code that none of the groups of SUBSITE_DICT lists
UnlistedSubsite == "C11.1"

\* the patients of the filter requests: the smoking status varies
FilterPatientRecords(p) ==
    {[DefaultPatient(p) EXCEPT !.nicotine_abuse = v] : v \in Ternary}

\* the tumors of the filter requests
TumorRecords ==
    [patient : 1..MaxPatients, subsite : {"C09.9", UnlistedSubsite}, t_stage : {1, 3},
     central : {True, False}, extension : {None}]

\* every patient with a CT diagnose of both sides
DefaultDiagnoses ==
    [k \in 1..(2 * MaxPatients) |->
        [patient |-> (k + 1) \div 2, modality |-> "CT",
         side |-> IF k % 2 = 1 THEN "ipsi" ELSE "contra",
         lnl |-> [lnl \in LNLNames |-> IF lnl = "III" THEN PyBool(k % 2 = 1) ELSE None]]]

\* the criteria of a filter request: passed as None, left out, or given
FilterKwargs ==
    {[QueryKwargs({"CT"}, "OR", NoTarget) EXCEPT
            !.nicotine_abuse = n, !.institution__in = inst, !.subsite__in = sub,
            !.t_stage__in = ts, !.central = c] :
        n \in Ternary,
        inst \in {NoCriterion, Given({1})},
        sub \in {NoCriterion, OmittedCriterion, Given({"C09.9"})},
        ts \in {NoCriterion, OmittedCriterion, Given({3})},
        c \in {None, True}}

\* A request at patient_specific over all patients: the patients' smoking
\* status, the tumors (none, one or several per patient) and the criteria vary.
InitFilter ==
    /\ patients \in {f \in [1..MaxPatients -> UNION {FilterPatientRecords(p) :
                                                        p \in 1..MaxPatients}] :
                        \A p \in 1..MaxPatients : f[p] \in FilterPatientRecords(p)}
    /\ tumors \in SeqsUpTo(TumorRecords, MaxTumors)
    /\ diagnoses = DefaultDiagnoses
    /\ kwargs \in FilterKwargs
    /\ n_status = None
    /\ patient_queryset = [p \in 1..MaxPatients |-> 1]
    /\ received = patient_queryset
    /\ combined_involvement = NoInvolvement
    /\ counts = <<>>
    /\ pc = "patient_specific"
    /\ error = "none"
    /\ NoModelOperation
    /\ NoEncoderCall
    /\ institutions = 1..MaxInstitutions

NextFilter == PatientSpecific \/ TumorSpecific

SpecFilter == InitFilter /\ [][NextFilter]_vars

\* the patients of the aggregation calls: female or male, the three ternary
\* attributes take each value
CountPatientRecords(p) ==
    {[DefaultPatient(p) EXCEPT !.sex = sex, !.nicotine_abuse = v[1],
                               !.hpv_status = v[2], !.neck_dissection = v[3]] :
        sex \in {"female", "male"},
        v \in {<<None, True, False>>, <<True, False, None>>, <<False, None, True>>}}

\* the tumors of the aggregation calls, with the T-stages Patient.T_stages allows
CountTumorRecords ==
    {[patient |-> p, subsite |-> sub, t_stage |-> ts, central |-> ce[1],
      extension |-> ce[2]] :
        p \in 1..MaxPatients, sub \in {"C09.9", UnlistedSubsite}, ts \in {1, 4},
        ce \in {<<True, None>>, <<False, True>>}}

\* the consensus of one side of one patient, with level III varied
InvolvementEntries ==
    {[i \in DOMAIN LNLs |-> IF LNLs[i] = "III" THEN v ELSE None] : v \in Ternary}

\* combined_involvement dictionaries: the first patient has an entry, or none,
\* per side; the other patients have both entries or none
Involvements ==
    {[side \in AllSides |->
        [p \in {q \in 1..MaxPatients :
                    IF q = 1 THEN side \in first ELSE others} |->
            IF p = 1 THEN e[side]
            ELSE [i \in DOMAIN LNLs |-> IF LNLs[i] = "III" /\ side = "ipsi"
                                        THEN True ELSE None]]] :
        first \in SUBSET AllSides, others \in BOOLEAN,
        e \in [AllSides -> InvolvementEntries]}

\* A call of count_patients: the attributes of the first patient, the tumors
\* (none, one or several per patient), the cohort (empty, too) and the
\* involvement dictionary vary.
InitCount ==
    /\ patients \in {[p \in 1..MaxPatients |-> IF p = 1 THEN r ELSE DefaultPatient(p)] :
                        r \in CountPatientRecords(1)}
    /\ tumors \in SeqsUpTo(CountTumorRecords, MaxTumors)
    /\ diagnoses = DefaultDiagnoses
    /\ kwargs = QueryKwargs({"CT"}, "OR", NoTarget)
    /\ n_status = None
    /\ patient_queryset \in [1..MaxPatients -> 0..1]
    /\ received = patient_queryset
    /\ combined_involvement \in Involvements
    /\ counts = <<>>
    /\ pc = "count_patients"
    /\ error = "none"
    /\ NoModelOperation
    /\ NoEncoderCall
    /\ institutions \in InstitutionTables

NextCount == CountPatients

SpecCount == InitCount /\ [][NextCount]_vars

\* the tumors of the requests that run the whole pipeline
PipelineTumorRecords ==
    [patient : 1..MaxPatients, subsite : {"C09.9", "C01.9"}, t_stage : {1, 3},
     central : {False}, extension : {None}]

\* diagnose tables in which a patient has a CT diagnose of both sides, of one
\* side or none
PipelineDiagnoses ==
    {SelectSeq(DefaultDiagnoses, LAMBDA x : <<x.patient, x.side>> \in keep) :
        keep \in SUBSET ((1..MaxPatients) \X AllSides)}

\* the criteria of a request that runs the whole pipeline
PipelineKwargs ==
    {[QueryKwargs({"CT"}, "OR", selected) EXCEPT
            !.nicotine_abuse = n, !.subsite__in = sub, !.t_stage__in = ts] :
        n \in {None, True},
        sub \in {NoCriterion, Given({"C09.9"})},
        ts \in {NoCriterion, Given({3})},
        selected \in TargetsOn({<<"ipsi", "III">>})}

\* A request that runs patient_specific, tumor_specific, diagnose_specific,
\* n_zero_specific and count_patients in this order over all patients: the
\* smoking status of the first patient, the tumors, the diagnoses and the
\* criteria vary.
InitPipeline ==
    /\ patients \in {[p \in 1..MaxPatients |->
                        IF p = 1 THEN [DefaultPatient(p) EXCEPT !.nicotine_abuse = v]
                        ELSE DefaultPatient(p)] : v \in {True, False}}
    /\ tumors \in SeqsUpTo(PipelineTumorRecords, MaxTumors)
    /\ diagnoses \in PipelineDiagnoses
    /\ kwargs \in PipelineKwargs
    /\ n_status = None
    /\ patient_queryset = [p \in 1..MaxPatients |-> 1]
    /\ received = patient_queryset
    /\ combined_involvement = NoInvolvement
    /\ counts = <<>>
    /\ pc = "patient_specific"
    /\ error = "none"
    /\ NoModelOperation
    /\ NoEncoderCall
    /\ institutions \in InstitutionTables

NextPipeline ==
    PatientSpecific \/ TumorSpecific \/ DiagnoseSpecific \/ NZeroSpecific \/ CountPatients

SpecPipeline == InitPipeline /\ [][NextPipeline]_vars

\* the calls of the encoders: tf2arr of each value of a nullable boolean field,
\* subsite2arr of each listed code, of strings no group lists (a code of
\* another region, the label of a subsite, the empty string), of an object
\* equal to the codes C01 and C32.0 and of one equal to every string
EncoderCalls ==
    {[op |-> "tf2arr", value |-> v] : v \in Ternary}
    \cup {[op |-> "subsite2arr", subsite |-> {code}] :
            code \in SUBSITE_LIST \cup {UnlistedSubsite, "glottis", ""}}
    \cup {[op |-> "subsite2arr", subsite |-> equal_to] :
            equal_to \in {{"C01", "C32.0"},
                          SUBSITE_LIST \cup {UnlistedSubsite, "glottis", ""}}}

\* A call of an encoder, outside any request
InitEncode ==
    /\ patients = <<>>
    /\ tumors = <<>>
    /\ diagnoses = <<>>
    /\ kwargs = QueryKwargs({}, "OR", NoTarget)
    /\ n_status = None
    /\ patient_queryset = <<>>
    /\ received = <<>>
    /\ combined_involvement = NoInvolvement
    /\ counts = <<>>
    /\ pc = "encoder"
    /\ error = "none"
    /\ NoModelOperation
    /\ call \in EncoderCalls
    /\ result = <<>>
    /\ institutions = {}

NextEncode == Tf2arr \/ Subsite2arr

SpecEncode == InitEncode /\ [][NextEncode]_vars

\* a patient row of the model-operation runs, in a dataset
StorePatient(p, dataset) ==
    [sex |-> "male", nicotine_abuse |-> True, hpv_status |-> None,
     neck_dissection |-> False, t_stage |-> 0, stage_prefix |-> "c",
     dataset |-> dataset]

\* tumor rows of the first patient as Tumor.save has written them
StoredTumorRows ==
    {[patient |-> 1, subsite |-> "C09.9", t_stage |-> ts, stage_prefix |-> prefix,
      central |-> False, extension |-> None, location |-> "oropharynx"] :
        ts \in {1, 3}, prefix \in {"c", "p"}}

\* the values of a superlevel and its two sublevels
Triples == [super : Ternary, a : Ternary, b : Ternary]

\* LNL values with the three groups of levels set as f says, the rest unknown
GroupedLNL(f) ==
    [name \in LNLNames |->
        IF \E g \in Sublevels : name \in {g.super, g.a, g.b}
        THEN LET g == CHOOSE h \in Sublevels : name \in {h.super, h.a, h.b}
             IN  IF name = g.super THEN f[g].super
                 ELSE IF name = g.a THEN f[g].a ELSE f[g].b
        ELSE None]

VoidTriple == [super |-> None, a |-> None, b |-> None]

\* the LNL values of a Diagnose instance before save: one group of levels
\* filled in in any way, or the three groups filled in alike
InstanceLNLValues ==
    {GroupedLNL([g \in Sublevels |-> IF g = only THEN t ELSE VoidTriple]) :
        only \in Sublevels, t \in Triples}
    \cup {GroupedLNL([g \in Sublevels |-> t]) : t \in Triples}

\* Diagnose rows as Diagnose.save has written them
StoredDiagnoseRows ==
    {[patient |-> 1, modality |-> "CT", side |-> "ipsi", lnl |-> consistent_lnl(lnl)] :
        lnl \in {GroupedLNL([g \in Sublevels |-> [super |-> True, a |-> None, b |-> True]]),
                 GroupedLNL([g \in Sublevels |-> [super |-> False, a |-> None, b |-> None]])}}

\* the instances a run operates on: a Diagnose, new or loaded and edited; a
\* Tumor, new or loaded and edited, of the first patient or assigned to the
\* second; a loaded and edited Patient
DiagnoseInstances(table) ==
    {[model |-> "Diagnose", pk |-> pk, patient |-> 1, modality |-> "CT",
      side |-> "ipsi", lnl |-> lnl] :
        pk \in {NoPk} \cup DOMAIN table, lnl \in InstanceLNLValues}

TumorInstances(table) ==
    {[model |-> "Tumor", pk |-> pk, patient |-> p, subsite |-> sub, t_stage |-> ts,
      stage_prefix |-> prefix, central |-> False, extension |-> None,
      location |-> IF pk = NoPk THEN "" ELSE table[pk].location] :
        pk \in {NoPk} \cup DOMAIN table, p \in {1, 2},
        sub \in {"C09.9", UnlistedSubsite, "glottis"},
        ts \in {2, 4}, prefix \in {"c", "p"}}

PatientInstances(table) ==
    {[model |-> "Patient", pk |-> pk, row |-> [table[pk] EXCEPT !.nicotine_abuse = v]] :
        pk \in DOMAIN table, v \in Ternary}

\* Operations on an instance of Patient, Tumor or Diagnose over a store with
\* one dataset, locked or not, and two patients: the first with its tumors and
\* diagnoses, the second without any
InitModels ==
    /\ datasets \in {<<[name |-> "a", is_locked |-> locked, upload_csv |-> NoFile,
                        export_csv |-> NoFile]>> : locked \in BOOLEAN}
    /\ tumors \in SeqsUpTo(StoredTumorRows, MaxTumors)
    /\ patients = update_t_stage(<<StorePatient(1, 1), StorePatient(2, 1)>>, tumors, 1)
    /\ diagnoses \in SeqsUpTo(StoredDiagnoseRows, 1)
    /\ instances \in {<<obj>> : obj \in DiagnoseInstances(diagnoses)
                                        \cup TumorInstances(tumors)
                                        \cup PatientInstances(patients)}
    /\ storage = <<>>
    /\ log = <<>>
    /\ steps = 0
    /\ next_pk = [Patient |-> Len(patients) + 1, Tumor |-> Len(tumors) + 1,
                  Diagnose |-> Len(diagnoses) + 1]
    /\ kwargs = QueryKwargs({"CT"}, "OR", NoTarget)
    /\ n_status = None
    /\ patient_queryset = <<>>
    /\ received = <<>>
    /\ combined_involvement = NoInvolvement
    /\ counts = <<>>
    /\ pc = "models"
    /\ error = "none"
    /\ NoEncoderCall
    /\ institutions = 1..MaxInstitutions

NextModels ==
    \/ DiagnoseSave
    \/ DiagnoseDelete
    \/ TumorSave
    \/ TumorDelete
    \/ PatientSave
    \/ PatientUpdateTStage
    \/ PatientDelete

SpecModels == InitModels /\ [][NextModels]_vars

\* a file of the storage, written there by a save of a dataset of that name
StoredFile(fieldname, name) == CommittedFile(<<used_for(fieldname), name>>)

\* a file assigned to a FileField and not saved yet
UploadedFile(tag) == [name |-> <<"upload">>, file |-> Content(tag), committed |-> FALSE]

\* the Dataset tables of the runs: two datasets, the first locked or not, each
\* with or without an upload, the second with or without an export
DatasetTables ==
    {<<[name |-> "a", is_locked |-> locked, upload_csv |-> up1, export_csv |-> NoFile],
       [name |-> "b", is_locked |-> FALSE, upload_csv |-> up2, export_csv |-> ex2]>> :
        locked \in BOOLEAN,
        up1 \in {NoFile, StoredFile("upload_csv", "a")},
        up2 \in {NoFile, StoredFile("upload_csv", "b")},
        ex2 \in {NoFile, StoredFile("export_csv", "b")}}

\* the Dataset instances in memory: a stored dataset as loaded, possibly
\* renamed or with another upload or export assigned, or a new dataset with
\* an upload
DatasetInstances(table) ==
    UNION {{[model |-> "Dataset", pk |-> pk, name |-> name,
             is_locked |-> table[pk].is_locked,
             upload_csv |-> up, export_csv |-> ex] :
                name \in {table[pk].name, "c"},
                up \in {table[pk].upload_csv, UploadedFile("h1"), UploadedFile("h2")},
                ex \in {table[pk].export_csv, UploadedFile("h3")}} :
            pk \in DOMAIN table}
    \cup {[model |-> "Dataset", pk |-> NoPk, name |-> "c", is_locked |-> FALSE,
           upload_csv |-> up, export_csv |-> NoFile] :
            up \in {NoFile, UploadedFile("h1")}}

\* the storage under a Dataset table: each file of a row with the content its
\* save has written, the uploads h1 and h2 and the export h3
FilesOf(table) ==
    LET paths == {table[pk][f].name : pk \in DOMAIN table,
                                      f \in {"upload_csv", "export_csv"}} \ {NoFile.name}
    IN  [path \in paths |->
            IF path = <<"uploads", "a">> THEN Content("h1")
            ELSE IF path = <<"uploads", "b">> THEN Content("h2")
            ELSE Content("h3")]

\* Operations on two Dataset instances in memory, of the same or of different
\* stored datasets
InitDatasets ==
    /\ datasets \in DatasetTables
    /\ instances \in {<<first, second>> : first \in DatasetInstances(datasets),
                                          second \in DatasetInstances(datasets)}
    /\ storage = FilesOf(datasets)
    /\ log = <<>>
    /\ steps = 0
    /\ next_pk = [Patient |-> 1, Tumor |-> 1, Diagnose |-> 1,
                  Dataset |-> Len(datasets) + 1]
    /\ patients = <<>>
    /\ tumors = <<>>
    /\ diagnoses = <<>>
    /\ kwargs = QueryKwargs({"CT"}, "OR", NoTarget)
    /\ n_status = None
    /\ patient_queryset = <<>>
    /\ received = <<>>
    /\ combined_involvement = NoInvolvement
    /\ counts = <<>>
    /\ pc = "models"
    /\ error = "none"
    /\ NoEncoderCall
    /\ institutions = 1..MaxInstitutions

NextDatasets ==
    \/ DatasetSave
    \/ DatasetLock
    \/ DatasetUnlock
    \/ DatasetValidateUnique
    \/ DatasetExportDbToCsv

SpecDatasets == InitDatasets /\ [][NextDatasets]_vars

\* Every kind of run: a request from either start, a call of count_patients,
\* of an encoder, operations on model instances
Init ==
    \/ InitFilter
    \/ InitQuery
    \/ InitCount
    \/ InitPipeline
    \/ InitEncode
    \/ InitModels
    \/ InitDatasets

Next ==
    \/ PatientSpecific
    \/ TumorSpecific
    \/ DiagnoseSpecific
    \/ NZeroSpecific
    \/ CountPatients
    \/ Tf2arr
    \/ Subsite2arr
    \/ DiagnoseSave
    \/ DiagnoseDelete
    \/ TumorSave
    \/ TumorDelete
    \/ PatientSave
    \/ PatientUpdateTStage
    \/ PatientDelete
    \/ DatasetSave
    \/ DatasetLock
    \/ DatasetUnlock
    \/ DatasetValidateUnique
    \/ DatasetExportDbToCsv

Spec == Init /\ [][Next]_vars

-----------------------------------------------------------------------------
(* Vocabulary of the properties *)

\* diagnose_specific has just returned: `received` is the cohort it was called
\* with, patient_queryset and combined_involvement are what it returned
AfterDiagnose == pc = "n_zero_specific"

\* n_zero_specific has just returned
AfterNZero == pc = "count_patients"

\* the qualifying observations of a patient and side: the stored diagnoses of
\* that patient and side whose modality is selected
Observations(p, side) ==
    {k \in DOMAIN diagnoses : /\ diagnoses[k].patient = p
                              /\ p \in Members(received)
                              /\ diagnoses[k].side = side
                              /\ diagnoses[k].modality \in kwargs.modalities}

Observed(p, side, lnl) == {diagnoses[k].lnl[lnl] : k \in Observations(p, side)}

\* the consensus stored for a patient, side and LNL
Stored(p, side, i) == combined_involvement[side][p][i]

Entries == {<<side, p, i>> \in AllSides \X PatientIds \X DOMAIN LNLs :
                p \in DOMAIN combined_involvement[side]}

-----------------------------------------------------------------------------
(* C1: for every patient, side and LNL whose qualifying observations are all
   unknown, the consensus diagnose_specific stores is unknown, under OR and
   under AND and for any number of observations. *)
C1_AllUnknownIsUnknown ==
    AfterDiagnose =>
        \A e \in Entries :
            Observed(e[2], e[1], LNLs[e[3]]) = {None} => Stored(e[2], e[1], e[3]) = None

\* two unknown observations of level III under AND, which alone combines them to True
C1_Witness ==
    /\ AfterDiagnose
    /\ kwargs.modality_combine = "AND"
    /\ \E p \in DOMAIN combined_involvement["ipsi"] :
        /\ Cardinality(Observations(p, "ipsi")) >= 2
        /\ Observed(p, "ipsi", "III") = {None}
        /\ combined_involvement["ipsi"][p][7] = None

(* C2: under OR, where the observations of a patient, side and LNL are not all
   unknown, the consensus is True iff one observation is True, False otherwise. *)
C2_OrConsensus ==
    (AfterDiagnose /\ kwargs.modality_combine = "OR") =>
        \A e \in Entries :
            Observed(e[2], e[1], LNLs[e[3]]) # {None} =>
                Stored(e[2], e[1], e[3]) =
                    IF True \in Observed(e[2], e[1], LNLs[e[3]]) THEN True ELSE False

\* OR over an unknown and a positive, and over an unknown and a negative observation
C2_Witness ==
    /\ AfterDiagnose
    /\ kwargs.modality_combine = "OR"
    /\ \E e \in Entries : /\ Observed(e[2], e[1], LNLs[e[3]]) = {None, True}
                          /\ Stored(e[2], e[1], e[3]) = True
    /\ \E e \in Entries : /\ Observed(e[2], e[1], LNLs[e[3]]) = {None, False}
                          /\ Stored(e[2], e[1], e[3]) = False

(* C3: under AND, where the observations of a patient, side and LNL are not all
   unknown, the consensus is False iff one observation is False, True otherwise:
   unknown observations are left out of the vote. *)
C3_AndConsensus ==
    (AfterDiagnose /\ kwargs.modality_combine = "AND") =>
        \A e \in Entries :
            Observed(e[2], e[1], LNLs[e[3]]) # {None} =>
                Stored(e[2], e[1], e[3]) =
                    IF False \in Observed(e[2], e[1], LNLs[e[3]]) THEN False ELSE True

\* AND over an unknown and a positive observation stays positive
C3_Witness ==
    /\ AfterDiagnose
    /\ kwargs.modality_combine = "AND"
    /\ \E e \in Entries : /\ Observed(e[2], e[1], LNLs[e[3]]) = {None, True}
                          /\ Stored(e[2], e[1], e[3]) = True
    /\ \E e \in Entries : /\ {True, False} \subseteq Observed(e[2], e[1], LNLs[e[3]])
                          /\ Stored(e[2], e[1], e[3]) = False

(* C4: every patient of the cohort diagnose_specific returns has, on both sides
   and at every LNL with a definite target, a consensus equal to the target; a
   consensus that is unknown or missing never equals a definite target. *)
C4_CohortMatchesBothSides ==
    AfterDiagnose =>
        \A p \in Members(patient_queryset), side \in AllSides, i \in DOMAIN LNLs :
            kwargs.selected[side][LNLs[i]] # None =>
                /\ p \in DOMAIN combined_involvement[side]
                /\ Stored(p, side, i) = kwargs.selected[side][LNLs[i]]

(* C5: a call of diagnose_specific whose modality_combine is neither OR nor AND
   fails with an error and returns no cohort, whatever cohort and modalities. *)
C5_UnknownPolicyFails ==
    (pc # "diagnose_specific" /\ kwargs.modality_combine \notin {"OR", "AND"}) =>
        (pc = "failed" /\ error = "ValueError")

(* C6: every patient of the cohort diagnose_specific returns has a diagnose with
   a selected modality; an empty modality selection gives an empty cohort. *)
C6_CohortHasObservations ==
    AfterDiagnose =>
        /\ \A p \in Members(patient_queryset) :
                \E k \in DOMAIN diagnoses : /\ diagnoses[k].patient = p
                                            /\ diagnoses[k].modality \in kwargs.modalities
        /\ kwargs.modalities = {} => Members(patient_queryset) = {}

\* a patient with diagnoses of unselected modalities only is dropped, another kept
C6_Witness ==
    /\ AfterDiagnose
    /\ \E p \in Members(received) \ Members(patient_queryset) :
        /\ \E k \in DOMAIN diagnoses : diagnoses[k].patient = p
        /\ Observations(p, "ipsi") \cup Observations(p, "contra") = {}
    /\ Members(patient_queryset) # {}

(* C7: count_patients completes for every cohort and combined_involvement that
   diagnose_specific returns, also for a patient with an entry on one side only,
   who is counted in total and adds nothing to the missing side's LNL counts.
   Stated for the calls that get past the institution lookup (see C13). *)
C7_CountCompletes ==
    (pc \in {"done", "failed"} /\ error \notin {"ValueError", institution_filter_error}) =>
        /\ pc = "done"
        /\ counts.total = QLen(patient_queryset)

\* any(...) of a patient's consensus on either side
NPlus(p) ==
    \E side \in AllSides :
        /\ p \in DOMAIN combined_involvement[side]
        /\ \E i \in DOMAIN LNLs : Stored(p, side, i) = True

(* C8: n_zero_specific keeps every patient for n_status None, the patients with
   a positive consensus at some LNL of either side for True and the patients with
   none for False; unknown values and a missing side are no involvement. *)
C8_NZeroKeepsMatching ==
    AfterNZero =>
        /\ n_status = None => patient_queryset = received
        /\ n_status = True =>
                Members(patient_queryset) = {p \in Members(received) : NPlus(p)}
        /\ n_status = False =>
                Members(patient_queryset) = {p \in Members(received) : ~NPlus(p)}

\* N0 requested: a patient with one side missing and nothing positive is kept,
\* a patient with a positive level is removed
C8_Witness ==
    /\ AfterNZero
    /\ n_status = False
    /\ \E p \in Members(patient_queryset) :
        /\ p \notin DOMAIN combined_involvement["contra"]
        /\ \E i \in DOMAIN LNLs : Stored(p, "ipsi", i) = None
    /\ \E p \in Members(received) \ Members(patient_queryset) : NPlus(p)

-----------------------------------------------------------------------------
(* The filters *)

AfterPatientSpecific == pc = "tumor_specific"

AfterTumorSpecific == pc = "diagnose_specific"

TumorsOf(p) == {tumors[k] : k \in {j \in DOMAIN tumors : tumors[j].patient = p}}

\* the specified patient criteria hold for a patient; a criterion on the
\* institution is in force in no cohort that patient_specific returns
PatientCriteriaHold(p) ==
    /\ kwargs.nicotine_abuse # None => patients[p].nicotine_abuse = kwargs.nicotine_abuse
    /\ kwargs.hpv_status # None => patients[p].hpv_status = kwargs.hpv_status
    /\ kwargs.neck_dissection # None =>
            patients[p].neck_dissection = kwargs.neck_dissection
    /\ institution__in_arg(kwargs).specified = "None"

\* the tumor criteria in force (given, or the default of an omitted one) hold for a tumor
TumorCriteriaHold(t) ==
    /\ subsite__in_arg(kwargs).specified # "None" =>
            t.subsite \in subsite__in_arg(kwargs).values
    /\ t_stage__in_arg(kwargs).specified # "None" =>
            t.t_stage \in t_stage__in_arg(kwargs).values
    /\ kwargs.central # None => t.central = kwargs.central
    /\ kwargs.extension # None => t.extension = kwargs.extension

\* no tumor criterion is in force
NoTumorCriterion ==
    /\ subsite__in_arg(kwargs).specified = "None"
    /\ t_stage__in_arg(kwargs).specified = "None"
    /\ kwargs.central = None
    /\ kwargs.extension = None

(* C9: a patient is in the cohort patient_specific and then tumor_specific return
   iff it is in the input cohort, every specified patient criterion holds for it
   and (when a tumor criterion is in force) one of its tumors satisfies all the
   tumor criteria together. *)
C9_FiltersAreConjunctive ==
    /\ AfterPatientSpecific =>
            Members(patient_queryset) = {p \in Members(received) : PatientCriteriaHold(p)}
    /\ AfterTumorSpecific =>
            Members(patient_queryset) =
                {p \in Members(received) :
                    NoTumorCriterion \/ \E t \in TumorsOf(p) : TumorCriteriaHold(t)}

\* no criterion of the request is specified: each is None or left out
NothingSpecified ==
    /\ kwargs.nicotine_abuse = None
    /\ kwargs.hpv_status = None
    /\ kwargs.neck_dissection = None
    /\ kwargs.institution__in.specified \in {"None", "Omitted"}
    /\ kwargs.subsite__in.specified \in {"None", "Omitted"}
    /\ kwargs.t_stage__in.specified \in {"None", "Omitted"}
    /\ kwargs.central = None
    /\ kwargs.extension = None

(* C10 as claimed: with every criterion None or omitted, patient_specific and
   tumor_specific remove no patient, also none without a tumor or with an
   unlisted subsite. *)
C10_UnspecifiedIsNoOp ==
    (NothingSpecified /\ (AfterPatientSpecific \/ AfterTumorSpecific)) =>
        Members(patient_queryset) = Members(received)

\* a patient has a tumor the default of a left-out criterion accepts
HasListedSubsite(p) == \E t \in TumorsOf(p) : t.subsite \in SUBSITE_LIST
HasListedTStage(p) == \E t \in TumorsOf(p) : t.t_stage \in {1, 2, 3, 4}

(* C10 as amended: with every criterion passed as None the cohort is returned
   unchanged, also the patients without a tumor or with an unlisted subsite; a
   left-out subsite__in or t_stage__in is the default list, applied as a filter:
   the patients with a tumor of a listed subsite, resp. of a T-stage 1..4, stay. *)
C10_NoneIsNoOp ==
    (NothingSpecified /\ (AfterPatientSpecific \/ AfterTumorSpecific)) =>
        /\ AfterPatientSpecific => patient_queryset = received
        /\ (/\ kwargs.subsite__in.specified = "None"
            /\ kwargs.t_stage__in.specified = "None") => patient_queryset = received
        /\ AfterTumorSpecific =>
                Members(patient_queryset) =
                    {p \in Members(received) :
                        /\ kwargs.subsite__in.specified = "Omitted" => HasListedSubsite(p)
                        /\ kwargs.t_stage__in.specified = "Omitted" => HasListedTStage(p)}

\* every criterion None: a patient without a tumor and one whose only tumor has an
\* unlisted subsite are both still in the cohort after tumor_specific
C10_Witness ==
    /\ AfterTumorSpecific
    /\ NothingSpecified
    /\ kwargs.subsite__in.specified = "None"
    /\ kwargs.t_stage__in.specified = "None"
    /\ \E p \in Members(patient_queryset) : TumorsOf(p) = {}
    /\ \E p \in Members(patient_queryset) :
            TumorsOf(p) # {} /\ \A t \in TumorsOf(p) : t.subsite = UnlistedSubsite

-----------------------------------------------------------------------------
(* C11 *)

\* C11: filtering is idempotent. Applying patient_specific with the same
\* criteria to the cohort it has just returned gives the same set of
\* patients, and so does tumor_specific applied to its own result.
C11_FilterIdempotent ==
    /\ AfterPatientSpecific =>
        /\ patient_specific(received, kwargs).error = "none"
        /\ patient_queryset = patient_specific(received, kwargs).queryset
        /\ patient_specific(patient_queryset, kwargs).error = "none"
        /\ Members(patient_specific(patient_queryset, kwargs).queryset)
                = Members(patient_queryset)
    /\ AfterTumorSpecific =>
        /\ patient_queryset = tumor_specific(received, kwargs)
        /\ Members(tumor_specific(patient_queryset, kwargs))
                = Members(patient_queryset)

\* tumor_specific has returned a cohort that a patient criterion and a tumor
\* criterion have narrowed, that is not empty, and in which a patient has
\* more than one result row
C11_Witness ==
    /\ AfterTumorSpecific
    /\ kwargs.nicotine_abuse # None
    /\ kwargs.t_stage__in.specified = "Given"
    /\ Members(patient_queryset) # {}
    /\ Members(patient_queryset) # Members(received)
    /\ \E p \in Members(patient_queryset) : patient_queryset[p] > 1

-----------------------------------------------------------------------------
(* C12, C13, C14: count_patients *)

\* count_patients has returned the statistics of the cohort `received`
AfterCount == pc = "done"

Sum3(v) == v[1] + v[2] + v[3]

\* the tumors of a patient, as indices of the tumor table
TumorIndicesOf(p) == {i \in DOMAIN tumors : tumors[i].patient = p}

\* the patient has a tumor and a consensus on both sides
FullyRecorded(p) ==
    /\ TumorIndicesOf(p) # {}
    /\ \A side \in AllSides : p \in DOMAIN combined_involvement[side]

\* C12: after count_patients over a cohort in which every patient has a tumor
\* and a combined_involvement entry on both sides, the three buckets of
\* nicotine_abuse, hpv_status, neck_dissection, central and extension each
\* sum to counts['total'].
C12_BucketsSumToTotal ==
    (AfterCount /\ \A p \in Members(received) : FullyRecorded(p)) =>
        /\ counts.total = QLen(received)
        /\ Sum3(counts.nicotine_abuse) = counts.total
        /\ Sum3(counts.hpv_status) = counts.total
        /\ Sum3(counts.neck_dissection) = counts.total
        /\ Sum3(counts.central) = counts.total
        /\ Sum3(counts.extension) = counts.total

\* statistics of the whole store, the patients differing in their smoking
\* status, one of them unknown
C12_Witness ==
    /\ AfterCount
    /\ Members(received) = PatientIds
    /\ \A p \in Members(received) : FullyRecorded(p)
    /\ counts.total = MaxPatients
    /\ counts.nicotine_abuse[1] > 0
    /\ counts.nicotine_abuse[2] > 0

\* count_patients was called with an empty cohort and has returned or failed
CountedEmpty == pc \in {"done", "failed"} /\ Members(received) = {}

\* C13: count_patients over an empty cohort does not fail and returns total
\* 0 and every count array all-zero and of its fixed shape, with one entry
\* per institution, whatever combined_involvement contains.
C13_EmptyCohortAllZero ==
    CountedEmpty =>
        /\ pc = "done"
        /\ error = "none"
        /\ counts.total = 0
        /\ counts.institutions = [inst \in institutions |-> 0]
        /\ \A key \in {"sex", "nicotine_abuse", "hpv_status", "neck_dissection",
                       "n_status", "central", "extension"} :
                counts[key] = <<0, 0, 0>>
        /\ counts.t_stages = [k \in 1..Len(T_stages) |-> 0]
        /\ counts.subsites = [k \in 1..Len(SUBSITE_DICT) |-> 0]
        /\ DOMAIN counts.involvement = AllSides
        /\ \A side \in AllSides :
            /\ DOMAIN counts.involvement[side] = LNLNames
            /\ \A lnl \in LNLNames : counts.involvement[side][lnl] = <<0, 0, 0>>

\* the tumor of a patient recorded first (lowest primary key)
FirstRecorded(p) ==
    tumors[CHOOSE i \in TumorIndicesOf(p) : \A j \in TumorIndicesOf(p) : i <= j]

\* the patients of `received` whose first recorded tumor has value v in a field
CountWhere(field, v) ==
    Cardinality({p \in Members(received) : FirstRecorded(p)[field] = v})

\* C14: count_patients takes the tumor statistics of each patient from exactly
\* one tumor, the first recorded one: each patient adds 1 to the T-stage
\* histogram at the position of that tumor's T-stage and one one-hot vector to
\* central and to extension, so the histogram sums to counts['total'] even
\* when patients have several tumors.
C14_FirstTumorCounted ==
    (AfterCount /\ \A p \in Members(received) : TumorIndicesOf(p) # {}) =>
        /\ counts.t_stages = [k \in 1..Len(T_stages) |-> CountWhere("t_stage", k)]
        /\ counts.central = <<CountWhere("central", None), CountWhere("central", True),
                              CountWhere("central", False)>>
        /\ counts.extension = <<CountWhere("extension", None),
                                CountWhere("extension", True),
                                CountWhere("extension", False)>>
        /\ counts.t_stages[1] + counts.t_stages[2] + counts.t_stages[3]
                + counts.t_stages[4] = counts.total

\* statistics of a patient with two tumors of different T-stage and centrality
C14_Witness ==
    /\ AfterCount
    /\ \E p \in Members(received) :
        /\ Cardinality(TumorIndicesOf(p)) = 2
        /\ \E i, j \in TumorIndicesOf(p) :
            /\ tumors[i].t_stage # tumors[j].t_stage
            /\ tumors[i].central # tumors[j].central

-----------------------------------------------------------------------------
(* C15, C16: the encoders *)

\* the encoder has returned
Encoded(op) == call.op = op /\ result # <<>>

\* the value a one-hot vector of tf2arr stands for
decode(arr) ==
    IF arr[1] = 1 THEN None ELSE IF arr[2] = 1 THEN True ELSE False

\* C15: tf2arr returns the length-3 vector that is 1 at exactly one index and
\* 0 elsewhere, index 0 for None, 1 for True, 2 for False (positions 1, 2, 3
\* of the tuple); every result sums to 1 and the input can be decoded from it.
C15_Tf2arrOneHot ==
    Encoded("tf2arr") =>
        /\ Len(result) = 3
        /\ \A k \in 1..3 :
            result[k] = IF k = (CASE call.value = None -> 1
                                  [] call.value = True -> 2
                                  [] call.value = False -> 3)
                        THEN 1 ELSE 0
        /\ Sum3(result) = 1
        /\ decode(result) = call.value

\* tf2arr has encoded False
C15_Witness ==
    /\ Encoded("tf2arr")
    /\ call.value = False
    /\ result = <<0, 0, 1>>

\* the groups of Tumor.SUBSITE_DICT whose list holds an entry the argument
\* of the call is equal to
GroupsListing ==
    {i \in DOMAIN SUBSITE_DICT : \E code \in SUBSITE_DICT[i].codes : code \in call.subsite}

\* C16: subsite2arr returns a vector over the ordered subsite groups whose
\* position i is 1 iff the code is in the list of group i: the zero vector
\* for a code in no group, and for a code in more than one group a vector
\* with all those positions set, returned after the warning is logged; no
\* warning otherwise, and nothing is raised.
C16_Subsite2arrMembership ==
    Encoded("subsite2arr") =>
        /\ DOMAIN result = DOMAIN SUBSITE_DICT
        /\ \A i \in DOMAIN result : result[i] = IF i \in GroupsListing THEN 1 ELSE 0
        /\ GroupsListing = {} => \A i \in DOMAIN result : result[i] = 0
        /\ Cardinality(GroupsListing) > 1 =>
                /\ np_sum(result) = Cardinality(GroupsListing)
                /\ log = <<"A tumor has been associated with more than one subsite.">>
        /\ Cardinality(GroupsListing) <= 1 => log = <<>>
        /\ error = "none"

\* subsite2arr has classified an argument equal to C01, of the first group,
\* and to C32.0, of the fifth: both positions are set and the warning logged
C16_Witness ==
    /\ Encoded("subsite2arr")
    /\ call.subsite = {"C01", "C32.0"}
    /\ GroupsListing = {1, 5}
    /\ result = <<1, 0, 0, 0, 1, 0, 0, 0, 0, 0, 0>>
    /\ log = <<"A tumor has been associated with more than one subsite.">>

-----------------------------------------------------------------------------
(* C17, C18: Diagnose.save *)

\* the sublevel rule for one group of levels: `reported` are the LNL values
\* of the instance before save, `persisted` those of its row after save
SublevelRule(reported, persisted, g) ==
    IF persisted[g.a] = True \/ persisted[g.b] = True
    THEN persisted[g.super] = True
    ELSE IF persisted[g.a] = False /\ persisted[g.b] = False
    THEN persisted[g.super] = False
    ELSE persisted[g.super] = reported[g.super]

\* the instance has a row that holds just its LNL values
AlreadySaved(obj) ==
    /\ obj.pk \in DOMAIN diagnoses
    /\ diagnoses[obj.pk].lnl = obj.lnl

\* C17: every Diagnose record persisted by Diagnose.save satisfies the
\* sublevel rule for (I; Ia, Ib), (II; IIa, IIb), (V; Va, Vb): a positive
\* sublevel makes the superlevel True, two negative sublevels make it False,
\* in every other case the superlevel keeps the value it had before save.
\* Saving an already saved record again changes no LNL value.
C17_SublevelRule ==
    [][DiagnoseSave =>
        \A i \in DOMAIN instances :
            instances'[i].pk # NoPk =>
                /\ instances'[i].pk \in DOMAIN diagnoses'
                /\ \A g \in Sublevels :
                    SublevelRule(instances[i].lnl, diagnoses'[instances'[i].pk].lnl, g)
                /\ AlreadySaved(instances[i]) =>
                    diagnoses'[instances'[i].pk].lnl = diagnoses[instances[i].pk].lnl
      ]_vars

\* a diagnose saved twice whose row has level I positive for its sublevel Ib
\* and level V unknown like its sublevels
C17_Witness ==
    /\ pc = "models"
    /\ steps = 2
    /\ \E i \in DOMAIN instances :
        /\ instances[i].model = "Diagnose"
        /\ AlreadySaved(instances[i])
        /\ diagnoses[instances[i].pk].lnl["Ib"] = True
        /\ diagnoses[instances[i].pk].lnl["Ia"] = False
        /\ diagnoses[instances[i].pk].lnl["I"] = True
        /\ diagnoses[instances[i].pk].lnl["V"] = None

\* no row of the Diagnose table has all its levels unknown
NoVoidDiagnose == \A pk \in DOMAIN diagnoses : ~all_unknown(diagnoses[pk].lnl)

\* C18: after Diagnose.save returns for a record whose 12 LNL values are all
\* unknown, no row of that diagnose is in the store, also when it was there
\* before with definite values; so between operations no all-unknown Diagnose
\* is available to diagnose_specific.
C18_VoidDiagnoseDeleted ==
    /\ []NoVoidDiagnose
    /\ [][DiagnoseSave =>
            \A i \in DOMAIN instances :
                (instances[i].model = "Diagnose" /\ all_unknown(instances[i].lnl)) =>
                    /\ pk_after_save(instances[i]) \notin DOMAIN diagnoses'
                    /\ instances'[i].pk = NoPk
         ]_vars

\* a saved void diagnose: the instance has no row, the table has held one
C18_Witness ==
    /\ pc = "models"
    /\ steps = 1
    /\ \E i \in DOMAIN instances :
        /\ instances[i].model = "Diagnose"
        /\ all_unknown(instances[i].lnl)
        /\ instances[i].pk = NoPk
    /\ next_pk["Diagnose"] = 2
    /\ diagnoses = <<>>

-----------------------------------------------------------------------------
(* C19, C20: the lock of a dataset *)

FileFields == {"upload_csv", "export_csv"}

\* the field holds a file whose content can be read
Readable(file) == md5_hash(storage, file).error = "none"

\* another stored dataset holds a file of the same hash in the same field
DuplicateOfAnother(obj, f) ==
    /\ Readable(obj[f])
    /\ \E pk \in DOMAIN datasets \ {obj.pk} :
            /\ Readable(datasets[pk][f])
            /\ md5_hash(storage, datasets[pk][f]).value = md5_hash(storage, obj[f]).value

\* the step is a call of save() without override on instance i
SavesWithoutOverride(i) ==
    /\ instances[i].model = "Dataset"
    /\ SaveInstance(i, instances[i], FALSE)
    /\ steps' = steps + 1

\* C19: Dataset.save without override on an instance whose is_locked is True
\* changes nothing: no field of the dataset is written to the store, no upload
\* or export file is deleted, and the call returns without raising.
C19_LockedSaveChangesNothing ==
    [][\A i \in DOMAIN instances :
            (instances[i].is_locked /\ SavesWithoutOverride(i)) =>
                /\ datasets' = datasets
                /\ storage' = storage
                /\ instances' = instances
                /\ error' = error
      ]_vars

\* a locked instance that was renamed in memory and given another upload, a
\* duplicate of the other dataset's, after its save was turned away
C19_Witness ==
    /\ pc = "models"
    /\ steps = 1
    /\ log = <<"Editing a locked dataset is prohibited.">>
    /\ instances[1].pk = 1
    /\ instances[1].is_locked
    /\ datasets[1].is_locked
    /\ instances[1].name # datasets[1].name
    /\ DuplicateOfAnother(instances[1], "upload_csv")
    /\ instances[2].pk = 2

\* the stored entries of a patient: its row, its tumors and its diagnoses
EntriesOf(patient_rows, tumor_rows, diagnose_rows, p) ==
    [patient |-> IF p \in DOMAIN patient_rows THEN <<patient_rows[p]>> ELSE <<>>,
     tumors |-> {<<k, tumor_rows[k]>> : k \in {j \in DOMAIN tumor_rows :
                                                    tumor_rows[j].patient = p}},
     diagnoses |-> {<<k, diagnose_rows[k]>> : k \in {j \in DOMAIN diagnose_rows :
                                                    diagnose_rows[j].patient = p}}]

\* the dataset of the patient is locked in the store
InLockedDataset(p) == datasets[patients[p].dataset].is_locked

\* C20: while a Dataset is locked in the store, no save or delete of a
\* Patient, Tumor or Diagnose of that dataset changes the stored state of
\* these entries, the update of the patient's T-stage by Tumor.save and
\* Tumor.delete and the deletion of a void Diagnose included.
C20_LockedEntriesUnchanged ==
    [][\A p \in DOMAIN patients :
            InLockedDataset(p) =>
                EntriesOf(patients', tumors', diagnoses', p)
                    = EntriesOf(patients, tumors, diagnoses, p)
      ]_vars

-----------------------------------------------------------------------------
(* C21: the T-stage of a patient *)

\* the stored tumors of a patient, as primary keys
StoredTumorsOf(p) == {k \in DOMAIN tumors : tumors[k].patient = p}

\* the stored tumors of a patient that have its highest T-stage
HighestOf(p) ==
    {k \in StoredTumorsOf(p) : \A j \in StoredTumorsOf(p) :
                                    tumors[j].t_stage <= tumors[k].t_stage}

\* the calls of the run are calls of Tumor.save and Tumor.delete: its
\* instances are tumors
OnlyTumorCalls == \A i \in DOMAIN instances : instances[i].model = "Tumor"

\* C21: after any sequence of Tumor.save and Tumor.delete calls on the tumors
\* of a patient, the stored t_stage of the patient is the maximum t_stage of
\* the tumors it has at that moment, 0 when it has none, and the stored
\* stage_prefix is that of the first tumor with that T-stage, 'c' when it has
\* none.
C21_TStageIsMaximum ==
    OnlyTumorCalls =>
        \A p \in DOMAIN patients :
            IF StoredTumorsOf(p) = {}
            THEN patients[p].t_stage = 0 /\ patients[p].stage_prefix = "c"
            ELSE LET first == CHOOSE k \in HighestOf(p) : \A j \in HighestOf(p) : k <= j
                 IN  /\ patients[p].t_stage = tumors[first].t_stage
                     /\ patients[p].stage_prefix = tumors[first].stage_prefix

-----------------------------------------------------------------------------
(* C22: the cohort of diagnose_specific *)

\* the consensus of a patient equals the target at every LNL of the side
\* that has a definite target
MatchesTarget(p, side) ==
    \A i \in DOMAIN LNLs :
        kwargs.selected[side][LNLs[i]] # None =>
            Stored(p, side, i) = kwargs.selected[side][LNLs[i]]

\* C22: a patient is in the cohort diagnose_specific returns if and only if it
\* is in the input cohort, has at least one qualifying observation, and on
\* every side on which it has a qualifying observation its consensus equals
\* the target at every LNL with a definite target; a mismatch on one side
\* excludes the patient even if the other side matches.
C22_CohortIffMatchesObservedSides ==
    AfterDiagnose =>
        \A p \in PatientIds :
            p \in Members(patient_queryset) <=>
                /\ p \in Members(received)
                /\ \E side \in AllSides : Observations(p, side) # {}
                /\ \A side \in AllSides :
                        Observations(p, side) # {} => MatchesTarget(p, side)

\* a patient matches a definite target on the ipsilateral side and is removed
\* for the contralateral side
C22_Witness ==
    /\ AfterDiagnose
    /\ \E p \in Members(received) \ Members(patient_queryset) :
        /\ Observations(p, "ipsi") # {}
        /\ Observations(p, "contra") # {}
        /\ MatchesTarget(p, "ipsi")
        /\ ~MatchesTarget(p, "contra")
        /\ kwargs.selected["ipsi"]["III"] # None

-----------------------------------------------------------------------------
(* C23: the cohort along the pipeline *)

\* C23: along patient_specific, tumor_specific, diagnose_specific,
\* n_zero_specific and count_patients every stage returns a cohort whose
\* patients are among those it received, so that a patient once removed does
\* not come back, and count_patients returns the cohort it received unchanged.
C23_StagesOnlyRemove ==
    [][/\ Members(patient_queryset') \subseteq Members(patient_queryset)
       /\ CountPatients => patient_queryset' = patient_queryset]_vars

\* the pipeline has run to its end: tumor_specific has removed the second
\* patient for its T-stage, the first patient is left and counted
C23_Witness ==
    /\ pc = "done"
    /\ kwargs.t_stage__in = Given({3})
    /\ \A k \in DOMAIN tumors : tumors[k].patient = 2 => tumors[k].t_stage # 3
    /\ \E k \in DOMAIN tumors : tumors[k].patient = 2
    /\ Members(patient_queryset) = {1}
    /\ counts.total = 1

-----------------------------------------------------------------------------
(* C24: the N-status of count_patients and of n_zero_specific *)

\* C24: for every cohort count_patients is called with, also one with a
\* patient whose entry for one side is missing, the call returns n_status
\* with n_status[0] = 0, n_status[1] the number of patients n_zero_specific
\* keeps of that cohort with n_status True, n_status[2] the number it keeps
\* with n_status False, and n_status[1] + n_status[2] = total. Stated for
\* the calls that get past the institution lookup (see C13).
C24_NStatusAgreesWithNZero ==
    (pc \in {"done", "failed"} /\ error \notin {"AttributeError", institution_filter_error}) =>
        /\ pc = "done"
        /\ counts.n_status[1] = 0
        /\ counts.n_status[2] = QLen(n_zero_specific(received, combined_involvement, True))
        /\ counts.n_status[3] = QLen(n_zero_specific(received, combined_involvement, False))
        /\ counts.n_status[2] + counts.n_status[3] = counts.total

-----------------------------------------------------------------------------
(* C25: no two datasets store the same file *)

\* no two rows of the Dataset table hold files of the same hash in a field
UniqueFiles(table) ==
    \A f \in FileFields, a, b \in DOMAIN table :
        (a # b /\ Readable(table[a][f]) /\ Readable(table[b][f])) =>
            md5_hash(storage, table[a][f]).value # md5_hash(storage, table[b][f]).value

\* instance i is saved, with or without override, and the save is not turned
\* away for the lock
SavesInstance(i) ==
    /\ instances[i].model = "Dataset"
    /\ \E override \in BOOLEAN :
        /\ ~(instances[i].is_locked /\ ~override)
        /\ SaveInstance(i, instances[i], override)
    /\ steps' = steps + 1

\* instance i is validated
ValidatesInstance(i) ==
    /\ DatasetValidateUnique
    /\ error' = IF DuplicateOfAnother(instances[i], "upload_csv")
                THEN "ValidationError" ELSE "none"

\* C25: after any sequence of Dataset.save calls, with or without override, no
\* two stored datasets hold upload_csv files of the same MD5 hash, nor
\* export_csv files of the same hash (every save of a store without such a
\* pair leaves a store without one): a save of a dataset that holds a file of
\* the hash of another dataset's file removes the file from the dataset
\* before it is stored and raises no error, while validate_unique of a
\* dataset whose upload is such a duplicate raises a validation error and
\* removes nothing.
C25_NoTwoDatasetsStoreTheSameFile ==
    /\ [][\A i \in DOMAIN instances :
            (SavesInstance(i) /\ UniqueFiles(datasets)) => UniqueFiles(datasets)'
         ]_vars
    /\ [][\A i \in DOMAIN instances, f \in FileFields :
            (SavesInstance(i) /\ DuplicateOfAnother(instances[i], f)) =>
                /\ ~has_file(instances'[i][f])
                /\ ~has_file(datasets'[instances'[i].pk][f])
                /\ error' = error
         ]_vars
    /\ [][\A i \in DOMAIN instances :
            (ValidatesInstance(i) /\ DuplicateOfAnother(instances[i], "upload_csv")) =>
                /\ error' = "ValidationError"
                /\ datasets' = datasets
                /\ instances' = instances
                /\ storage' = storage
         ]_vars

-----------------------------------------------------------------------------
(* C26: lock and unlock *)

\* instance i is locked
Locks(i) ==
    /\ instances[i].model = "Dataset"
    /\ SaveInstance(i, [instances[i] EXCEPT !.is_locked = TRUE], TRUE)
    /\ steps' = steps + 1

\* instance i is unlocked
Unlocks(i) ==
    /\ instances[i].model = "Dataset"
    /\ SaveInstance(i, [instances[i] EXCEPT !.is_locked = FALSE], FALSE)
    /\ steps' = steps + 1

\* the call of save on instance i with the fields of obj returns: every file
\* its duplicate check has to read is in the storage
Returns(obj, override) == dataset_save(storage, obj, override).error = "none"

\* C26: a lock that returns stores is_locked True whatever the instance and
\* the store held before, an unlock that returns stores is_locked False, also
\* of a locked dataset; from unlock on a save without override through the
\* instance that returns stores its fields again, and from lock to the next
\* unlock of the instance no save without override through it changes the
\* store.
C26_LockUnlock ==
    /\ [][\A i \in DOMAIN instances :
            Locks(i) =>
                /\ instances'[i].is_locked
                /\ Returns([instances[i] EXCEPT !.is_locked = TRUE], TRUE) =>
                        datasets'[instances'[i].pk].is_locked
         ]_vars
    /\ [][\A i \in DOMAIN instances :
            Unlocks(i) =>
                /\ ~instances'[i].is_locked
                /\ Returns([instances[i] EXCEPT !.is_locked = FALSE], FALSE) =>
                        ~datasets'[instances'[i].pk].is_locked
         ]_vars
    /\ [][\A i \in DOMAIN instances :
            instances'[i].is_locked # instances[i].is_locked => Locks(i) \/ Unlocks(i)
         ]_vars
    /\ [][\A i \in DOMAIN instances :
            SavesWithoutOverride(i) =>
                IF instances[i].is_locked
                THEN datasets' = datasets /\ storage' = storage
                ELSE Returns(instances[i], FALSE) =>
                        /\ datasets'[instances'[i].pk].name = instances[i].name
                        /\ datasets'[instances'[i].pk].is_locked = FALSE
         ]_vars

\* the first instance has locked its dataset, which the second instance had
\* loaded unlocked, and its next save without override was turned away
C26_Witness ==
    /\ pc = "models"
    /\ steps = 2
    /\ instances[1].pk = 1
    /\ instances[2].pk = 1
    /\ instances[1].is_locked
    /\ ~instances[2].is_locked
    /\ datasets[1].is_locked
    /\ log = <<"Editing a locked dataset is prohibited.">>

-----------------------------------------------------------------------------
(* C27: the keys of combined_involvement *)

\* C27: the combined_involvement diagnose_specific returns is not narrowed
\* with the cohort: the keys of a side are the patients of the input cohort
\* with at least one qualifying observation on that side, those the pattern
\* removed from the cohort included, and every value has one entry per LNL,
\* each True, False or None.
C27_InvolvementNotNarrowed ==
    AfterDiagnose =>
        \A side \in AllSides :
            /\ DOMAIN combined_involvement[side] =
                    {p \in Members(received) : Observations(p, side) # {}}
            /\ \A p \in DOMAIN combined_involvement[side] :
                /\ Len(combined_involvement[side][p]) = 12
                /\ DOMAIN combined_involvement[side][p] = DOMAIN LNLs
                /\ \A i \in DOMAIN LNLs : combined_involvement[side][p][i] \in Ternary

\* a patient the pattern has removed from the cohort still has its entry
C27_Witness ==
    /\ AfterDiagnose
    /\ \E p \in Members(received) \ Members(patient_queryset) :
        /\ p \in DOMAIN combined_involvement["ipsi"]
        /\ ~MatchesTarget(p, "ipsi")
        /\ p \notin DOMAIN combined_involvement["contra"]

-----------------------------------------------------------------------------
(* C28: the counts of 'sex' *)

\* C28: counts['sex'] returned by count_patients is the all-zero vector for
\* every cohort, whatever the sex of its patients, so that its buckets, unlike
\* those of the other ternary attributes, do not sum to total for a cohort
\* that is not empty.
C28_SexNeverCounted ==
    AfterCount =>
        /\ counts.sex = <<0, 0, 0>>
        /\ counts.total > 0 => Sum3(counts.sex) # counts.total

\* a woman and a man were counted: the smoking status sums to the total, sex
\* to none
C28_Witness ==
    /\ AfterCount
    /\ Members(received) = PatientIds
    /\ patients[1].sex = "female"
    /\ patients[2].sex = "male"
    /\ counts.total = MaxPatients
    /\ Sum3(counts.nicotine_abuse) = counts.total
    /\ Sum3(counts.sex) = 0

-----------------------------------------------------------------------------
(* C29: the tumor statistics and the tumor filter *)

\* C29: when the cohort was filtered by tumor_specific with t_stage__in = S,
\* the T-stage histogram of count_patients is non-zero only at stages of S,
\* and with subsite__in = U only subsite groups with a code of U are counted,
\* also for patients with more than one tumor.
C29_StatisticsWithinFilter ==
    AfterCount =>
        /\ kwargs.t_stage__in.specified = "Given" =>
                \A i \in DOMAIN T_stages :
                    counts.t_stages[i] > 0 => T_stages[i] \in kwargs.t_stage__in.values
        /\ kwargs.subsite__in.specified = "Given" =>
                \A g \in DOMAIN SUBSITE_DICT :
                    counts.subsites[g] > 0 =>
                        SUBSITE_DICT[g].codes \cap kwargs.subsite__in.values # {}

-----------------------------------------------------------------------------
(* C30: two instances of one stored dataset *)

\* the stored dataset of instance i is locked, the instance, loaded before
\* the lock, still holds is_locked False
StaleUnlocked(i) ==
    /\ instances[i].model = "Dataset"
    /\ instances[i].pk \in DOMAIN datasets
    /\ datasets[instances[i].pk].is_locked
    /\ ~instances[i].is_locked

\* C30: with two instances of the same stored dataset, once lock() has
\* completed through one of them, a save() without override through the
\* other, which still holds is_locked False, changes nothing in the store: it
\* neither sets the stored is_locked back to False nor stores other fields.
C30_StaleSaveChangesNothing ==
    [][\A i \in DOMAIN instances :
            (StaleUnlocked(i) /\ SavesWithoutOverride(i)) =>
                /\ datasets' = datasets
                /\ storage' = storage
      ]_vars

====
